---- MODULE Spec2Model ----
(***************************************************************************)
(* Response-handler pipeline of http-cli: the layered variable store       *)
(* (createVariableStore), the client API bound to it (createClientAPI) and *)
(* the sandboxed script executor (executeScript), under the run-to-        *)
(* completion scheduling of the JavaScript event loop.                     *)
(***************************************************************************)
EXTENDS Integers, Sequences, FiniteSets, TLC

VARIABLES
    memoryStore,      \* Map<string,string> of the session tier
    persistentStore,  \* Map<string,string> of the persistent tier
    hasWriter,        \* whether options.envWriter was supplied
    writes,           \* the envWriter invocations made by setPersistent, in order
    microtasks,       \* the microtask queue of the event loop (FIFO)
    exec,             \* one record per executeScript call
    running,          \* the call whose synchronous body is on the stack (0: none)
    hostCall,         \* the store operation the host program called last
    content,          \* the text handed to parseResponseHandler
    startIndex,       \* its second argument
    parsed,           \* the ParseResult it returned
    extracted,        \* what extractMultiLineHandler returned
    config,           \* the RedactionConfig: patterns, headers, body, url
    heap,             \* the objects and arrays of the body, by reference
    redacted,         \* what the redaction function called last returned
    request,          \* the ParsedRequest of the execute command
    dotEnv,           \* the text of the .env file, as lines
    processEnv,       \* the shell environment
    fetched,          \* the calls of fetch made by the command
    stdout,           \* the JSON documents the command printed
    exitCode          \* the code of process.exit, NotExited while it runs

parserVars == <<content, startIndex, parsed, extracted>>

redactVars == <<config, heap, redacted>>

commandVars == <<request, dotEnv, processEnv, fetched, stdout, exitCode>>

vars == <<memoryStore, persistentStore, hasWriter, writes, microtasks, exec, running,
          hostCall, parserVars, redactVars, commandVars>>

(***************************************************************************)
(* Bounds of the model.                                                    *)
(***************************************************************************)
NumExecs == 3
MaxWrites == 1
MaxTimeout == 2
MaxLines == 4

\* if (depth >= 10) of redactObject
RedactionDepthLimit == 10

MaxNesting == 12

(***************************************************************************)
(* Keys are sequences of characters, so that sanitizeKey is computed.      *)
(* Values are strings; Undefined stands for JavaScript's undefined and is  *)
(* no member of Values.                                                    *)
(***************************************************************************)
KeyA == <<"a">>
KeyNL == <<"a", "\r", "\n">>
KeyProto == <<"__proto__">>
KeyCounter == <<"c">>
KeyTraversal == <<".", ".", "/", "e", "t", "c">>
Keys == {KeyA, KeyNL, KeyProto}
PersistentKeys == Keys \cup {KeyTraversal}
Values == {"", "A", "B"}
Undefined == "<undefined>"
EmptyMap == [k \in {} |-> ""]

(***************************************************************************)
(* The variable store.                                                     *)
(***************************************************************************)
MapSet(m, k, v) == [x \in DOMAIN m \cup {k} |-> IF x = k THEN v ELSE m[x]]

MapGet(m, k) == IF k \in DOMAIN m THEN m[k] ELSE Undefined

keepKey(key) == key

sanitizeKey(key) == SelectSeq(key, LAMBDA c : c \notin {"\n", "\r"})

getMemory(key) == MapGet(memoryStore, key)

getPersistent(key) == MapGet(persistentStore, key)

getPersistentFirst(key) ==
    LET persistentValue == MapGet(persistentStore, key)
    IN  IF persistentValue # Undefined
        THEN persistentValue
        ELSE MapGet(memoryStore, key)

getTruthy(key) ==
    LET memoryValue == MapGet(memoryStore, key)
    IN  IF memoryValue \notin {Undefined, ""}
        THEN memoryValue
        ELSE LET persistentValue == MapGet(persistentStore, key)
             IN  IF persistentValue \notin {Undefined, ""}
                 THEN persistentValue
                 ELSE Undefined

get(key) ==
    LET memoryValue == MapGet(memoryStore, key)
    IN  IF memoryValue # Undefined
        THEN memoryValue
        ELSE LET persistentValue == MapGet(persistentStore, key)
             IN  IF persistentValue # Undefined THEN persistentValue ELSE Undefined

has(key) == key \in DOMAIN memoryStore \/ key \in DOMAIN persistentStore

(***************************************************************************)
(* getAll builds a plain object: result[key] = value.  On a plain object   *)
(* the key "__proto__" is the accessor inherited from Object.prototype,    *)
(* whose setter ignores a string, so that assignment adds no own property. *)
(***************************************************************************)
ObjectAssign(result, key, value) ==
    IF key = KeyProto THEN result ELSE MapSet(result, key, value)

RECURSIVE ObjectAssignEntries(_, _, _)
ObjectAssignEntries(result, entries, todo) ==
    IF todo = {}
    THEN result
    ELSE LET key == CHOOSE k \in todo : TRUE
         IN  ObjectAssignEntries(ObjectAssign(result, key, entries[key]),
                                 entries, todo \ {key})

getAll ==
    LET afterPersistent ==
            ObjectAssignEntries(EmptyMap, persistentStore, DOMAIN persistentStore)
    IN  ObjectAssignEntries(afterPersistent, memoryStore, DOMAIN memoryStore)

(***************************************************************************)
(* setPersistent up to its await: the key is sanitized, the persistent     *)
(* tier is written, and envWriter (when supplied) is invoked.  The writer  *)
(* returns normally ("accepted": the await schedules the continuation as a *)
(* microtask), throws ("rejected": the promise of the async function is    *)
(* rejected at once) or returns a pending promise ("writing").             *)
(***************************************************************************)
WriterOutcomes == {"writing", "accepted", "rejected"}

Continuation(w) == [e |-> 0, pos |-> 0, w |-> w]

setPersistent(key, value, by, outcome) ==
    LET sanitized == sanitizeKey(key)
    IN  /\ persistentStore' = MapSet(persistentStore, sanitized, value)
        /\ IF hasWriter
           THEN /\ writes' = Append(writes, [key |-> sanitized, value |-> value,
                                             by |-> by, st |-> outcome])
                /\ microtasks' = IF outcome = "accepted"
                                 THEN Append(microtasks, Continuation(Len(writes) + 1))
                                 ELSE microtasks
           ELSE UNCHANGED <<writes, microtasks>>

setMemory(key, value) ==
    /\ memoryStore' = MapSet(memoryStore, key, value)
    /\ persistentStore' = persistentStore

clearEverything ==
    /\ memoryStore' = EmptyMap
    /\ persistentStore' = EmptyMap

clearMemory ==
    /\ memoryStore' = EmptyMap
    /\ persistentStore' = persistentStore

Called(op, key, value) == [op |-> op, key |-> key, value |-> value]

NoCall == Called("none", <<>>, "")

(***************************************************************************)
(* The store used directly by the host (as the unit tests do).             *)
(***************************************************************************)
HostSetMemory(key, value) ==
    /\ running = 0
    /\ setMemory(key, value)
    /\ hostCall' = Called("setMemory", key, value)
    /\ UNCHANGED <<hasWriter, writes, microtasks, exec, running>>
    /\ UNCHANGED <<parserVars, redactVars, commandVars>>

HostSetPersistent(key, value, outcome) ==
    /\ running = 0
    /\ hasWriter => Len(writes) < MaxWrites
    /\ ~hasWriter => outcome = "accepted"
    /\ setPersistent(key, value, 0, outcome)
    /\ hostCall' = Called("setPersistent", key, value)
    /\ UNCHANGED <<memoryStore, hasWriter, exec, running>>
    /\ UNCHANGED <<parserVars, redactVars, commandVars>>

HostClearMemory ==
    /\ running = 0
    /\ clearMemory
    /\ hostCall' = Called("clearMemory", <<>>, "")
    /\ UNCHANGED <<hasWriter, writes, microtasks, exec, running>>
    /\ UNCHANGED <<parserVars, redactVars, commandVars>>

(***************************************************************************)
(* The promise returned by envWriter settles (an I/O completion: the event *)
(* loop takes it only when no job runs and the microtask queue is empty).  *)
(***************************************************************************)
WriterSettles(w, ok) ==
    /\ running = 0
    /\ microtasks = <<>>
    /\ w \in 1..Len(writes)
    /\ writes[w].st = "writing"
    /\ writes' = [writes EXCEPT ![w].st = IF ok THEN "accepted" ELSE "failed"]
    /\ microtasks' = Append(microtasks, Continuation(w))
    /\ UNCHANGED <<memoryStore, persistentStore, hasWriter, exec, running, hostCall>>
    /\ UNCHANGED <<parserVars, redactVars, commandVars>>

(***************************************************************************)
(* The continuation of setPersistent after its await: the promise of the   *)
(* call resolves, or rejects with the writer's error.                      *)
(***************************************************************************)
ResumeSwallowsFailure ==
    /\ running = 0
    /\ microtasks # <<>>
    /\ Head(microtasks).w # 0
    /\ writes' = [writes EXCEPT ![Head(microtasks).w].st = "resolved"]
    /\ microtasks' = Tail(microtasks)
    /\ UNCHANGED <<memoryStore, persistentStore, hasWriter, exec, running, hostCall>>
    /\ UNCHANGED <<parserVars, redactVars, commandVars>>

ResumeUndoesWrite ==
    /\ running = 0
    /\ microtasks # <<>>
    /\ Head(microtasks).w # 0
    /\ LET w == Head(microtasks).w
           kept == DOMAIN persistentStore \ {writes[w].key}
       IN  /\ writes' = [writes EXCEPT ![w].st =
                            IF writes[w].st = "accepted" THEN "resolved" ELSE "rejected"]
           /\ persistentStore' = IF writes[w].st = "accepted"
                                 THEN persistentStore
                                 ELSE [k \in kept |-> persistentStore[k]]
    /\ microtasks' = Tail(microtasks)
    /\ UNCHANGED <<memoryStore, hasWriter, exec, running, hostCall>>
    /\ UNCHANGED <<parserVars, redactVars, commandVars>>

ResumeSetPersistent ==
    /\ running = 0
    /\ microtasks # <<>>
    /\ Head(microtasks).w # 0
    /\ LET w == Head(microtasks).w
       IN  writes' = [writes EXCEPT ![w].st =
                        IF writes[w].st = "accepted" THEN "resolved" ELSE "rejected"]
    /\ microtasks' = Tail(microtasks)
    /\ UNCHANGED <<memoryStore, persistentStore, hasWriter, exec, running, hostCall>>
    /\ UNCHANGED <<parserVars, redactVars, commandVars>>

(***************************************************************************)
(* The state after createVariableStore(options): an empty session tier,    *)
(* the persistent tier loaded from options.envData.                        *)
(***************************************************************************)
EnvDataChoices == {EmptyMap, [k \in {KeyA} |-> "B"]}

\* no call of parseResponseHandler has returned
NotParsed == [pending |-> TRUE]

NoParse ==
    /\ content = <<>>
    /\ startIndex = 0
    /\ parsed = NotParsed
    /\ extracted = NotParsed

\* no redaction function has been called
NotRedacted == [pending |-> TRUE]

NoRedaction ==
    /\ config = [patterns |-> <<>>]
    /\ heap = <<>>
    /\ redacted = NotRedacted

\* the execute command has not called process.exit
NotExited == -1

NoCommand ==
    /\ request = [url |-> <<>>]
    /\ dotEnv = <<>>
    /\ processEnv = EmptyMap
    /\ fetched = <<>>
    /\ stdout = <<>>
    /\ exitCode = NotExited

NotStarted == [sid |-> 0, pos |-> 0, local |-> Undefined, timeout |-> 0,
               elapsed |-> 0, success |-> FALSE, error |-> <<>>, done |-> FALSE]

Init ==
    /\ memoryStore = EmptyMap
    /\ persistentStore \in EnvDataChoices
    /\ hasWriter \in BOOLEAN
    /\ writes = <<>>
    /\ microtasks = <<>>
    /\ exec = [e \in 1..NumExecs |-> NotStarted]
    /\ running = 0
    /\ hostCall = NoCall
    /\ NoParse
    /\ NoRedaction
    /\ NoCommand

StoreNext ==
    \/ \E k \in Keys, v \in Values : HostSetMemory(k, v)
    \/ \E k \in PersistentKeys, v \in Values, o \in WriterOutcomes :
            HostSetPersistent(k, v, o)
    \/ HostClearMemory
    \/ \E w \in 1..MaxWrites, ok \in BOOLEAN : WriterSettles(w, ok)
    \/ ResumeSetPersistent

StoreSpec == Init /\ [][StoreNext]_vars

(***************************************************************************)
(* Scripts.  A script is the sequence of the operations its synchronous    *)
(* body performs on the sandbox, the promise reactions it may schedule     *)
(* (Promise.resolve().then(...), the body of an async function after its   *)
(* first await) and the SyntaxError of its text, if it has one.            *)
(***************************************************************************)
Op(op, key, value, msg, r) == [op |-> op, key |-> key, value |-> value, msg |-> msg, r |-> r]

Script(sync, reactions, syntax) == [sync |-> sync, reactions |-> reactions, syntax |-> syntax]

\* client.global.set("counter", (parseInt(client.global.get("counter") || "0") + 1).toString())
IncrScript ==
    Script(<<Op("get", KeyCounter, "", <<>>, 0), Op("setinc", KeyCounter, "", <<>>, 0)>>,
           <<>>, <<>>)

\* throw new Error("Intentional crash")
ThrowScript == Script(<<Op("throw", <<>>, "", <<"Intentional crash">>, 0)>>, <<>>, <<>>)

\* client.global.set("a", "A")
SetScript == Script(<<Op("set", KeyA, "A", <<>>, 0)>>, <<>>, <<>>)

\* client.global.set("a", "B"); throw new Error("Intentional crash")
SetThrowScript ==
    Script(<<Op("set", KeyA, "B", <<>>, 0), Op("throw", <<>>, "", <<"Intentional crash">>, 0)>>,
           <<>>, <<>>)

\* client.environment.set("a", "B")
EnvSetScript == Script(<<Op("envset", KeyA, "B", <<>>, 0)>>, <<>>, <<>>)

\* process.exit(1)
RefProcessScript == Script(<<Op("ref", <<>>, "process", <<>>, 0)>>, <<>>, <<>>)

\* console.log("x")
RefConsoleScript == Script(<<Op("ref", <<>>, "console", <<>>, 0)>>, <<>>, <<>>)

\* while (true) {}
LoopScript == Script(<<Op("loop", <<>>, "", <<>>, 0)>>, <<>>, <<>>)

\* Promise.resolve().then(() => client.global.set("a", "B"))
ThenSetScript ==
    Script(<<Op("then", <<>>, "", <<>>, 1)>>, <<Op("set", KeyA, "B", <<>>, 0)>>, <<>>)

\* (async () => { while (true) { await null; } })()
AsyncLoopScript ==
    Script(<<Op("then", <<>>, "", <<>>, 1)>>, <<Op("asyncloop", <<>>, "", <<>>, 0)>>, <<>>)

\* client.global.clear()
ClearScript == Script(<<Op("clear", <<>>, "", <<>>, 0)>>, <<>>, <<>>)

\* the empty text
EmptyScript == Script(<<>>, <<>>, <<>>)

\* client.global.set('token'
SyntaxErrorScript ==
    Script(<<Op("set", KeyA, "A", <<>>, 0)>>, <<>>, <<"missing )", "after argument list">>)

\* throw new Error("Connection timed out")
ThrowTimedOutScript ==
    Script(<<Op("throw", <<>>, "", <<"Connection", "timed out">>, 0)>>, <<>>, <<>>)

\* client.global.clear("a")
ClearNameScript == Script(<<Op("clearname", KeyA, "", <<>>, 0)>>, <<>>, <<>>)

\* client.test("t", () => { throw new Error("Intentional crash") });
\* client.global.set("a", "B")
TestThrowScript ==
    Script(<<Op("test", <<>>, "", <<"Intentional crash">>, 0), Op("set", KeyA, "B", <<>>, 0)>>,
           <<>>, <<>>)

\* client.global.set("a", "B"); while (true) {}
SetLoopScript ==
    Script(<<Op("set", KeyA, "B", <<>>, 0), Op("loop", <<>>, "", <<>>, 0)>>, <<>>, <<>>)

Scripts ==
    <<IncrScript, ThrowScript, SetScript, SetThrowScript, EnvSetScript, RefProcessScript,
      RefConsoleScript, LoopScript, ThenSetScript, AsyncLoopScript, ClearScript,
      EmptyScript, SyntaxErrorScript, ThrowTimedOutScript, ClearNameScript, TestThrowScript,
      SetLoopScript>>

Execs == 1..NumExecs

ScriptOf(e) == Scripts[exec[e].sid]

CurrentOp(e) == ScriptOf(e).sync[exec[e].pos]

AtOp(e, op) ==
    /\ exec[e].sid # 0
    /\ ~exec[e].done
    /\ exec[e].pos \in 1..Len(ScriptOf(e).sync)
    /\ CurrentOp(e).op = op

EnvSets(script) == Cardinality({i \in 1..Len(script.sync) : script.sync[i].op = "envset"})

(***************************************************************************)
(* Error messages are sequences of tokens; includes and replace act on     *)
(* tokens.                                                                 *)
(***************************************************************************)
Includes(msg, token) == \E i \in 1..Len(msg) : msg[i] = token

IndexOf(msg, tokens) == CHOOSE i \in 1..Len(msg) :
                            /\ msg[i] \in tokens
                            /\ \A j \in 1..(i - 1) : msg[j] \notin tokens

ReplaceFirst(msg, token, by) == [msg EXCEPT ![IndexOf(msg, {token})] = by]

MissingTokens == {"missing )", "missing }", "missing ]"}

TimedOutMessage == <<"Script execution", "timed out", "after", "ms">>

NotDefinedMessage(name) == <<name, "is not defined">>

\* the catch block of executeScript: the error of the result
NormalizeError(errorMessage) ==
    IF Includes(errorMessage, "timed out")
    THEN ReplaceFirst(errorMessage, "timed out", "timeout")
    ELSE IF \E t \in MissingTokens : Includes(errorMessage, t)
         THEN Append(SubSeq(errorMessage, 1, IndexOf(errorMessage, MissingTokens) - 1),
                     "Unexpected end of input")
         ELSE errorMessage

(***************************************************************************)
(* Numbers of the counter script: parseInt and Number.prototype.toString   *)
(* on decimal digits; NaN for anything else.                               *)
(***************************************************************************)
Digits == <<"0", "1", "2", "3", "4", "5", "6", "7", "8", "9">>
NaN == -1

ParseInt(str) ==
    IF \E i \in 1..Len(Digits) : Digits[i] = str
    THEN (CHOOSE i \in 1..Len(Digits) : Digits[i] = str) - 1
    ELSE NaN

NumberToString(n) == IF n = NaN THEN "NaN" ELSE Digits[n + 1]

OrZero(value) == IF value \in {Undefined, ""} THEN "0" ELSE value

Increment(value) ==
    LET n == ParseInt(OrZero(value))
    IN  NumberToString(IF n = NaN THEN NaN ELSE n + 1)

(***************************************************************************)
(* executeScript.  The function is async but awaits nothing: from its call *)
(* to its return its body, vm.runInContext included, runs synchronously,   *)
(* so no other call and no microtask runs in between.                      *)
(***************************************************************************)
HasTurnPreemptive(e) == exec[e].sid = 0 \/ ~exec[e].done

HasTurn(e) == IF exec[e].sid = 0 THEN running = 0 ELSE running = e

Finished(sid, success, error) ==
    [sid |-> sid, pos |-> 0, local |-> Undefined, timeout |-> 0, elapsed |-> 0,
     success |-> success, error |-> error, done |-> TRUE]

\* the names of the sandbox object handed to vm.createContext
SandboxNames == {"client", "response", "console"}

Advance(e) == exec' = [exec EXCEPT ![e].pos = @ + 1]

FailAndClear(e, errorMessage) ==
    /\ exec' = [exec EXCEPT ![e] = Finished(exec[e].sid, FALSE, NormalizeError(errorMessage))]
    /\ running' = 0
    /\ memoryStore' = EmptyMap
    /\ persistentStore' = persistentStore

\* the catch block: the call returns {success: false, error}
Fail(e, errorMessage) ==
    /\ exec' = [exec EXCEPT ![e] = Finished(exec[e].sid, FALSE, NormalizeError(errorMessage))]
    /\ running' = 0
    /\ memoryStore' = memoryStore
    /\ persistentStore' = persistentStore

Call(e, sid, timeout) ==
    /\ exec[e].sid = 0
    /\ IF e = 1 THEN TRUE ELSE exec[e - 1].sid # 0
    /\ HasTurn(e)
    /\ hasWriter => Len(writes) + EnvSets(Scripts[sid]) <= MaxWrites
    /\ IF Scripts[sid].sync = <<>>
       THEN /\ exec' = [exec EXCEPT ![e] = Finished(sid, TRUE, <<>>)]
            /\ running' = running
       ELSE /\ exec' = [exec EXCEPT ![e] = [NotStarted EXCEPT !.sid = sid, !.pos = 1,
                                                               !.timeout = timeout]]
            /\ running' = e
    /\ UNCHANGED <<memoryStore, persistentStore, hasWriter, writes, microtasks, hostCall>>
    /\ UNCHANGED <<parserVars, redactVars, commandVars>>

\* vm.runInContext compiles the text first: a SyntaxError is thrown before any
\* statement runs
Compile(e) ==
    /\ HasTurn(e)
    /\ exec[e].sid # 0 /\ ~exec[e].done /\ exec[e].pos = 1 /\ exec[e].elapsed = 0
    /\ ScriptOf(e).syntax # <<>>
    /\ Fail(e, ScriptOf(e).syntax)
    /\ UNCHANGED <<hasWriter, writes, microtasks, hostCall>>
    /\ UNCHANGED <<parserVars, redactVars, commandVars>>

Parses(e) == ScriptOf(e).syntax = <<>>

\* client.global.set(name, value): store.setMemory(name, String(value))
StepSet(e) ==
    /\ HasTurn(e) /\ AtOp(e, "set") /\ Parses(e)
    /\ setMemory(CurrentOp(e).key, CurrentOp(e).value)
    /\ Advance(e)
    /\ UNCHANGED <<hasWriter, writes, microtasks, running, hostCall>>
    /\ UNCHANGED <<parserVars, redactVars, commandVars>>

\* client.global.get(name): store.getMemory(name)
StepGet(e) ==
    /\ HasTurn(e) /\ AtOp(e, "get") /\ Parses(e)
    /\ exec' = [exec EXCEPT ![e].pos = @ + 1, ![e].local = getMemory(CurrentOp(e).key)]
    /\ UNCHANGED <<memoryStore, persistentStore, hasWriter, writes, microtasks, running,
                   hostCall>>
    /\ UNCHANGED <<parserVars, redactVars, commandVars>>

\* client.global.set(name, (parseInt(value || "0") + 1).toString())
StepSetInc(e) ==
    /\ HasTurn(e) /\ AtOp(e, "setinc") /\ Parses(e)
    /\ setMemory(CurrentOp(e).key, Increment(exec[e].local))
    /\ Advance(e)
    /\ UNCHANGED <<hasWriter, writes, microtasks, running, hostCall>>
    /\ UNCHANGED <<parserVars, redactVars, commandVars>>

\* client.global.clear(): store.clearMemory()
StepClear(e) ==
    /\ HasTurn(e) /\ AtOp(e, "clear") /\ Parses(e)
    /\ clearMemory
    /\ Advance(e)
    /\ UNCHANGED <<hasWriter, writes, microtasks, running, hostCall>>
    /\ UNCHANGED <<parserVars, redactVars, commandVars>>

\* globalStore.clear(name) of an API bound to a store: "Clear specific
\* variable - Not supported by VariableStore interface", the branch is empty
clearNamed(name) ==
    /\ memoryStore' = memoryStore
    /\ persistentStore' = persistentStore

\* client.global.clear(name)
StepClearName(e) ==
    /\ HasTurn(e) /\ AtOp(e, "clearname") /\ Parses(e)
    /\ clearNamed(CurrentOp(e).key)
    /\ Advance(e)
    /\ UNCHANGED <<hasWriter, writes, microtasks, running, hostCall>>
    /\ UNCHANGED <<parserVars, redactVars, commandVars>>

testRethrows(e) == Fail(e, CurrentOp(e).msg)

\* ClientAPIImpl.test with an fn that throws: the catch block logs the failure
\* and test returns
test(e) ==
    /\ Advance(e)
    /\ UNCHANGED <<memoryStore, persistentStore, running>>

StepTest(e) ==
    /\ HasTurn(e) /\ AtOp(e, "test") /\ Parses(e)
    /\ test(e)
    /\ UNCHANGED <<hasWriter, writes, microtasks, hostCall>>
    /\ UNCHANGED <<parserVars, redactVars, commandVars>>

\* client.environment.set(name, value): void store.setPersistent(name, String(value))
StepEnvSet(e, outcome) ==
    /\ HasTurn(e) /\ AtOp(e, "envset") /\ Parses(e)
    /\ ~hasWriter => outcome = "accepted"
    /\ setPersistent(CurrentOp(e).key, CurrentOp(e).value, e, outcome)
    /\ Advance(e)
    /\ UNCHANGED <<memoryStore, hasWriter, running, hostCall>>
    /\ UNCHANGED <<parserVars, redactVars, commandVars>>

\* the script schedules a promise reaction
StepThen(e) ==
    /\ HasTurn(e) /\ AtOp(e, "then") /\ Parses(e)
    /\ microtasks' = Append(microtasks, [e |-> e, pos |-> CurrentOp(e).r, w |-> 0])
    /\ Advance(e)
    /\ UNCHANGED <<memoryStore, persistentStore, hasWriter, writes, running, hostCall>>
    /\ UNCHANGED <<parserVars, redactVars, commandVars>>

\* the script evaluates an identifier: the sandbox has it, or a ReferenceError
StepRef(e) ==
    /\ HasTurn(e) /\ AtOp(e, "ref") /\ Parses(e)
    /\ IF CurrentOp(e).value \in SandboxNames
       THEN /\ Advance(e)
            /\ UNCHANGED <<memoryStore, persistentStore, running>>
       ELSE Fail(e, NotDefinedMessage(CurrentOp(e).value))
    /\ UNCHANGED <<hasWriter, writes, microtasks, hostCall>>
    /\ UNCHANGED <<parserVars, redactVars, commandVars>>

\* throw new Error(msg)
StepThrow(e) ==
    /\ HasTurn(e) /\ AtOp(e, "throw") /\ Parses(e)
    /\ Fail(e, CurrentOp(e).msg)
    /\ UNCHANGED <<hasWriter, writes, microtasks, hostCall>>
    /\ UNCHANGED <<parserVars, redactVars, commandVars>>

\* a synchronous loop runs while the timeout of vm.runInContext has not elapsed
LoopTick(e) ==
    /\ HasTurn(e) /\ AtOp(e, "loop") /\ Parses(e)
    /\ exec[e].elapsed < exec[e].timeout
    /\ exec' = [exec EXCEPT ![e].elapsed = @ + 1]
    /\ UNCHANGED <<memoryStore, persistentStore, hasWriter, writes, microtasks, running,
                   hostCall>>
    /\ UNCHANGED <<parserVars, redactVars, commandVars>>

\* at the timeout the vm terminates the synchronous run and throws
TimeoutTerminate(e) ==
    /\ HasTurn(e) /\ AtOp(e, "loop") /\ Parses(e)
    /\ exec[e].elapsed >= exec[e].timeout
    /\ Fail(e, TimedOutMessage)
    /\ UNCHANGED <<hasWriter, writes, microtasks, hostCall>>
    /\ UNCHANGED <<parserVars, redactVars, commandVars>>

\* vm.runInContext returned: return {success: true}
Return(e) ==
    /\ HasTurn(e)
    /\ exec[e].sid # 0 /\ ~exec[e].done /\ Parses(e)
    /\ exec[e].pos = Len(ScriptOf(e).sync) + 1
    /\ exec' = [exec EXCEPT ![e] = Finished(exec[e].sid, TRUE, <<>>)]
    /\ running' = 0
    /\ UNCHANGED <<memoryStore, persistentStore, hasWriter, writes, microtasks, hostCall>>
    /\ UNCHANGED <<parserVars, redactVars, commandVars>>

\* the event loop runs a promise reaction of the script of call e: vm's timeout
\* does not cover it
RunReaction(e) ==
    /\ running = 0
    /\ microtasks # <<>>
    /\ Head(microtasks).e = e
    /\ LET op == ScriptOf(e).reactions[Head(microtasks).pos]
       IN  IF op.op = "asyncloop"
           THEN /\ microtasks' = Append(Tail(microtasks), Head(microtasks))
                /\ UNCHANGED <<memoryStore, persistentStore>>
           ELSE /\ microtasks' = Tail(microtasks)
                /\ setMemory(op.key, op.value)
    /\ UNCHANGED <<hasWriter, writes, exec, running, hostCall>>
    /\ UNCHANGED <<parserVars, redactVars, commandVars>>

Next ==
    \/ \E e \in Execs, sid \in 1..Len(Scripts), t \in 1..MaxTimeout : Call(e, sid, t)
    \/ \E e \in Execs : Compile(e)
    \/ \E e \in Execs : StepSet(e)
    \/ \E e \in Execs : StepGet(e)
    \/ \E e \in Execs : StepSetInc(e)
    \/ \E e \in Execs : StepClear(e)
    \/ \E e \in Execs : StepClearName(e)
    \/ \E e \in Execs : StepTest(e)
    \/ \E e \in Execs, o \in WriterOutcomes : StepEnvSet(e, o)
    \/ \E e \in Execs : StepThen(e)
    \/ \E e \in Execs : StepRef(e)
    \/ \E e \in Execs : StepThrow(e)
    \/ \E e \in Execs : LoopTick(e)
    \/ \E e \in Execs : TimeoutTerminate(e)
    \/ \E e \in Execs : Return(e)
    \/ \E e \in Execs : RunReaction(e)
    \/ \E w \in 1..MaxWrites, ok \in BOOLEAN : WriterSettles(w, ok)
    \/ ResumeSetPersistent

Spec == Init /\ [][Next]_vars

(***************************************************************************)
(* Strings of the parser are sequences of characters; indices count from 0 *)
(* as in JavaScript and -1 is "not found".                                 *)
(***************************************************************************)
WhitespaceChars == {" ", "\n"}

Least(S) == CHOOSE x \in S : \A y \in S : x <= y

Greatest(S) == CHOOSE x \in S : \A y \in S : x >= y

RECURSIVE trimStart(_)
trimStart(s) ==
    IF s # <<>> /\ Head(s) \in WhitespaceChars THEN trimStart(Tail(s)) ELSE s

RECURSIVE trimEnd(_)
trimEnd(s) ==
    IF s # <<>> /\ s[Len(s)] \in WhitespaceChars
    THEN trimEnd(SubSeq(s, 1, Len(s) - 1))
    ELSE s

trim(s) == trimEnd(trimStart(s))

startsWith(s, prefix) == Len(s) >= Len(prefix) /\ SubSeq(s, 1, Len(prefix)) = prefix

Occurrences(s, search) ==
    {i \in 0..(Len(s) - Len(search)) : SubSeq(s, i + 1, i + Len(search)) = search}

indexOf(s, search, position) ==
    LET found == {i \in Occurrences(s, search) : i >= position}
    IN  IF found = {} THEN -1 ELSE Least(found)

lastIndexOf(s, search) ==
    IF Occurrences(s, search) = {} THEN -1 ELSE Greatest(Occurrences(s, search))

includes(s, search) == Occurrences(s, search) # {}

\* String.prototype.substring swaps its arguments when start > end
substring(s, start, end) ==
    SubSeq(s, Least({start, end}) + 1, Greatest({start, end}))

RECURSIVE split(_)
split(s) ==
    IF ~includes(s, <<"\n">>)
    THEN <<s>>
    ELSE LET at == indexOf(s, <<"\n">>, 0)
         IN  <<SubSeq(s, 1, at)>> \o split(SubSeq(s, at + 2, Len(s)))

RECURSIVE join(_)
join(lines) ==
    IF Len(lines) = 1 THEN lines[1] ELSE lines[1] \o <<"\n">> \o join(Tail(lines))

OpeningDelimiter == <<"{", "%">>

ClosingDelimiter == <<"%", "}">>

(***************************************************************************)
(* new Function(script) throws a SyntaxError iff the text is no function   *)
(* body.  The texts of the model are written with the characters           *)
(*   a  (an identifier)   %  >  (binary operators; >> and >>> are too)     *)
(*   {  }  (a block, or the object literals {} and {a})   (  space  \n     *)
(* for which the grammar of ECMAScript comes to: a body is a list of       *)
(* statements; a statement is a block or an expression that does not start *)
(* with "{"; an expression is operands separated by operators; it ends at  *)
(* the end of the text, before "}" or before a token on a new line         *)
(* (automatic semicolon insertion); "(" is never closed.                   *)
(***************************************************************************)
Token(t, nl) == [t |-> t, nl |-> nl]

RECURSIVE RunOf(_, _, _)
RunOf(s, p, c) == IF p <= Len(s) /\ s[p] = c THEN 1 + RunOf(s, p + 1, c) ELSE 0

RECURSIVE Tokens(_, _, _)
Tokens(s, p, nl) ==
    IF p > Len(s) THEN <<>>
    ELSE IF s[p] = " " THEN Tokens(s, p + 1, nl)
    ELSE IF s[p] = "\n" THEN Tokens(s, p + 1, TRUE)
    ELSE IF s[p] = "%" THEN <<Token("op", nl)>> \o Tokens(s, p + 1, FALSE)
    ELSE IF s[p] = ">"
         THEN LET run == RunOf(s, p, ">")
              IN  (IF run <= 3 THEN <<Token("op", nl)>>
                               ELSE <<Token("op", nl), Token("op", FALSE)>>)
                  \o Tokens(s, p + run, FALSE)
    ELSE <<Token(s[p], nl)>> \o Tokens(s, p + 1, FALSE)

Is(toks, p, t) == IF p <= Len(toks) THEN toks[p].t = t ELSE FALSE

\* the position after the operand at p; 0 when there is no operand at p
Operand(toks, p) ==
    IF Is(toks, p, "a") THEN p + 1
    ELSE IF Is(toks, p, "{") /\ Is(toks, p + 1, "}") THEN p + 2
    ELSE IF Is(toks, p, "{") /\ Is(toks, p + 1, "a") /\ Is(toks, p + 2, "}") THEN p + 3
    ELSE 0

\* the position after the expression whose first operand ends before p
RECURSIVE ExpressionRest(_, _)
ExpressionRest(toks, p) ==
    IF Is(toks, p, "op")
    THEN IF Operand(toks, p + 1) = 0 THEN 0 ELSE ExpressionRest(toks, Operand(toks, p + 1))
    ELSE p

EndsStatement(toks, p) ==
    IF p > Len(toks) THEN TRUE ELSE toks[p].t = "}" \/ toks[p].nl

RECURSIVE StatementList(_, _)
RECURSIVE Statement(_, _)
Statement(toks, p) ==
    IF Is(toks, p, "{")
    THEN LET q == StatementList(toks, p + 1)
         IN  IF q # 0 /\ Is(toks, q, "}") THEN q + 1 ELSE 0
    ELSE IF Is(toks, p, "a")
    THEN LET q == ExpressionRest(toks, p + 1)
         IN  IF q # 0 /\ EndsStatement(toks, q) THEN q ELSE 0
    ELSE 0

StatementList(toks, p) ==
    IF p > Len(toks) \/ Is(toks, p, "}")
    THEN p
    ELSE IF Statement(toks, p) = 0 THEN 0 ELSE StatementList(toks, Statement(toks, p))

ThrowsSyntaxError(script) ==
    LET toks == Tokens(script, 1, FALSE)
    IN  StatementList(toks, 1) # Len(toks) + 1

(***************************************************************************)
(* parseResponseHandler.                                                   *)
(***************************************************************************)
MissingClosingError == "malformed response handler: missing %}"

InvalidClosingError == "malformed response handler: invalid closing marker"

InvalidMarkersError == "malformed response handler: invalid markers"

OutOfOrderError == "malformed response handler: markers out of order"

SyntaxErrorInHandler == "syntax error in response handler: "

startsHandlerUntrimmed(line) ==
    startsWith(line, <<">">>) /\ includes(line, OpeningDelimiter)

isResponseHandlerLine(line) ==
    startsWith(trim(line), <<">">>) /\ includes(trim(line), OpeningDelimiter)

MalformedClosingBySpace(currentLine) ==
    /\ includes(currentLine, <<"%">>)
    /\ includes(currentLine, <<"}">>)
    /\ LET percentIndex == lastIndexOf(currentLine, <<"%">>)
           braceIndex == indexOf(currentLine, <<"}">>, percentIndex)
       IN  braceIndex - percentIndex = 2 /\ currentLine[percentIndex + 2] = " "

\* "% }" or similar: a "}" after the last "%" of the line, not next to it
MalformedClosing(currentLine) ==
    /\ includes(currentLine, <<"%">>)
    /\ includes(currentLine, <<"}">>)
    /\ LET percentIndex == lastIndexOf(currentLine, <<"%">>)
           braceIndex == indexOf(currentLine, <<"}">>, percentIndex)
       IN  braceIndex > percentIndex /\ braceIndex - percentIndex > 1

Collected(foundClosing, error, j, scriptContent) ==
    [foundClosing |-> foundClosing, error |-> error, j |-> j,
     scriptContent |-> scriptContent]

RECURSIVE CollectLinesToEnd(_, _, _)
CollectLinesToEnd(lines, j, scriptContent) ==
    IF j >= Len(lines)
    THEN Collected(TRUE, Undefined, j, scriptContent)
    ELSE LET currentLine == lines[j + 1]
             withLine == scriptContent \o currentLine
         IN  IF includes(currentLine, ClosingDelimiter)
             THEN Collected(TRUE, Undefined, j, withLine)
             ELSE IF MalformedClosing(currentLine)
             THEN Collected(FALSE, InvalidClosingError, j, withLine)
             ELSE CollectLinesToEnd(lines, j + 1,
                                    IF j < Len(lines) - 1 THEN withLine \o <<"\n">>
                                                          ELSE withLine)

\* the for loop over j: the lines of one handler
RECURSIVE CollectLines(_, _, _)
CollectLines(lines, j, scriptContent) ==
    IF j >= Len(lines)
    THEN Collected(FALSE, Undefined, j, scriptContent)
    ELSE LET currentLine == lines[j + 1]
             withLine == scriptContent \o currentLine
         IN  IF includes(currentLine, ClosingDelimiter)
             THEN Collected(TRUE, Undefined, j, withLine)
             ELSE IF MalformedClosing(currentLine)
             THEN Collected(FALSE, InvalidClosingError, j, withLine)
             ELSE CollectLines(lines, j + 1,
                               IF j < Len(lines) - 1 THEN withLine \o <<"\n">>
                                                     ELSE withLine)

ParsedHandler(script, startLine) ==
    [script |-> script, startLine |-> startLine, language |-> "javascript"]

Stopped(handlers, error) == [handlers |-> handlers, error |-> error]

\* the while loop over i
RECURSIVE ScanLines(_, _, _, _)
ScanLines(lines, i, handlers, startIdx) ==
    IF i >= Len(lines)
    THEN Stopped(handlers, Undefined)
    ELSE IF ~isResponseHandlerLine(lines[i + 1])
    THEN ScanLines(lines, i + 1, handlers, startIdx)
    ELSE LET c == CollectLines(lines, i, <<>>)
             startMarker == indexOf(c.scriptContent, OpeningDelimiter, 0)
             endMarker == indexOf(c.scriptContent, ClosingDelimiter, 0)
             script == trim(substring(c.scriptContent, startMarker + 2, endMarker))
         IN  IF ~c.foundClosing /\ c.error = Undefined
             THEN Stopped(handlers, MissingClosingError)
             ELSE IF c.error # Undefined
             THEN Stopped(handlers, c.error)
             ELSE IF startMarker = -1 \/ endMarker = -1
             THEN Stopped(handlers, InvalidMarkersError)
             ELSE IF endMarker <= startMarker
             THEN Stopped(handlers, OutOfOrderError)
             ELSE IF ThrowsSyntaxError(script)
             THEN Stopped(handlers, SyntaxErrorInHandler)
             ELSE ScanLines(lines, c.j + 1,
                            Append(handlers, ParsedHandler(script, i + startIdx)),
                            startIdx)

ParseResultKeepsHandlers(handlers, error) ==
    IF handlers = <<>> /\ error = Undefined
    THEN [hasHandler |-> FALSE, script |-> <<>>]
    ELSE IF error # Undefined
    THEN [hasHandler |-> TRUE, error |-> error, handlers |-> handlers]
    ELSE IF Len(handlers) = 1
    THEN [hasHandler |-> TRUE, script |-> handlers[1].script]
    ELSE [hasHandler |-> TRUE, handlers |-> handlers]

\* the return statements: a ParseResult has the properties it was given
ParseResult(handlers, error) ==
    IF handlers = <<>> /\ error = Undefined
    THEN [hasHandler |-> FALSE, script |-> <<>>]
    ELSE IF error # Undefined
    THEN [hasHandler |-> TRUE, error |-> error]
    ELSE IF Len(handlers) = 1
    THEN [hasHandler |-> TRUE, script |-> handlers[1].script]
    ELSE [hasHandler |-> TRUE, handlers |-> handlers]

parseResponseHandler(text, startIdx) ==
    LET scanned == ScanLines(split(text), 0, <<>>, startIdx)
    IN  ParseResult(scanned.handlers, scanned.error)

RECURSIVE CollectUntilClosing(_, _, _, _)
\* the for loop of extractMultiLineHandler, from line i (counted from 0) on
CollectUntilClosing(lines, startIdx, i, text) ==
    IF i >= Len(lines)
    THEN [content |-> text, endIdx |-> startIdx]
    ELSE IF includes(text \o lines[i + 1], ClosingDelimiter)
    THEN [content |-> text \o lines[i + 1], endIdx |-> i]
    ELSE CollectUntilClosing(lines, startIdx, i + 1, text \o lines[i + 1] \o <<"\n">>)

\* a null handler is a record without the property handler
extractMultiLineHandler(lines, startIdx) ==
    LET collected == CollectUntilClosing(lines, startIdx, startIdx, <<>>)
        result == parseResponseHandler(collected.content, startIdx)
    IN  IF "error" \in DOMAIN result \/ ~result.hasHandler
        THEN [endIdx |-> collected.endIdx]
        ELSE IF "handlers" \in DOMAIN result /\ Len(result.handlers) > 0
        THEN [handler |-> result.handlers[1], endIdx |-> collected.endIdx]
        ELSE [endIdx |-> collected.endIdx]

(***************************************************************************)
(* The texts handed to the parser: up to MaxLines lines, each one of       *)
(* LineChoices.                                                            *)
(***************************************************************************)
OpenLine == <<">", " ", "{", "%">>

CloseLine == <<"%", "}">>

StatementLine == <<"a">>

SpacedCloseLine == <<"%", " ", "}">>

ModuloLine == <<"{", "a", "%", "a", "}">>

UnclosedParenLine == <<"a", "(">>

OneLineHandler == <<">", " ", "{", "%", " ", "a", " ", "%", "}">>

EmptyLine == <<>>

\* "> {%" after other text, as in a comment
NotOpeningLine == <<"a", " ", ">", " ", "{", "%">>

\* an indented line whose delimiters share the "%"
OverlapLine == <<" ", ">", " ", "{", "%", "}">>

OutOfOrderLine == <<">", " ", "%", "}", " ", "{", "%">>

\* an opening line with "% }"
SpacedOpenLine == <<">", " ", "{", "%", " ", "}">>

LineChoices ==
    {OpenLine, CloseLine, StatementLine, SpacedCloseLine, ModuloLine, UnclosedParenLine,
     OneLineHandler, EmptyLine, NotOpeningLine, OverlapLine, OutOfOrderLine,
     SpacedOpenLine}

LineLists == UNION {[1..n -> LineChoices] : n \in 1..MaxLines}

StartIndexChoices == {0, 3}

ParserInit ==
    /\ memoryStore = EmptyMap
    /\ persistentStore = EmptyMap
    /\ hasWriter = FALSE
    /\ writes = <<>>
    /\ microtasks = <<>>
    /\ exec = [e \in 1..NumExecs |-> NotStarted]
    /\ running = 0
    /\ hostCall = NoCall
    /\ content \in {join(lines) : lines \in LineLists}
    /\ startIndex \in StartIndexChoices
    /\ parsed = NotParsed
    /\ extracted = NotParsed
    /\ NoRedaction
    /\ NoCommand

ParseCall ==
    /\ parsed = NotParsed
    /\ extracted = NotParsed
    /\ parsed' = parseResponseHandler(content, startIndex)
    /\ UNCHANGED <<memoryStore, persistentStore, hasWriter, writes, microtasks, exec,
                   running, hostCall, content, startIndex, extracted>>
    /\ UNCHANGED <<redactVars, commandVars>>

\* extractMultiLineHandler(lines, startIdx) on the lines of the text
ExtractCall ==
    /\ parsed = NotParsed
    /\ extracted = NotParsed
    /\ startIndex < Len(split(content))
    /\ extracted' = extractMultiLineHandler(split(content), startIndex)
    /\ UNCHANGED <<memoryStore, persistentStore, hasWriter, writes, microtasks, exec,
                   running, hostCall, content, startIndex, parsed>>
    /\ UNCHANGED <<redactVars, commandVars>>

ParserNext ==
    \/ ParseCall
    \/ ExtractCall

ParserSpec == ParserInit /\ [][ParserNext]_vars

(***************************************************************************)
(* Claims about executeScript, checked under Spec.                         *)
(***************************************************************************)
Returned(e) == exec[e].sid # 0 /\ exec[e].done

WritesOf(e) == {w \in 1..Len(writes) : writes[w].by = e}

\* C1: a call whose script called client.environment.set reports success only
\* once envWriter has accepted every write of that script; a write that
\* envWriter rejects makes the call report failure.
C1_SuccessWaitsForWriter ==
    \A e \in Execs :
        (Returned(e) /\ exec[e].success) =>
            \A w \in WritesOf(e) : writes[w].st \in {"accepted", "resolved"}

RefersOutside(script) ==
    /\ script.syntax = <<>>
    /\ script.sync # <<>>
    /\ script.sync[1].op = "ref"
    /\ script.sync[1].value \notin {"client", "response"}

\* C2: a script reaches the names response and client and nothing else: a call
\* whose script refers to any other name fails with "<name> is not defined".
C2_OnlyClientAndResponse ==
    \A e \in Execs :
        (Returned(e) /\ RefersOutside(ScriptOf(e))) =>
            /\ ~exec[e].success
            /\ exec[e].error = NotDefinedMessage(ScriptOf(e).sync[1].value)

NeverTerminates(script) ==
    /\ script.syntax = <<>>
    /\ \/ \E i \in 1..Len(script.sync) : script.sync[i].op = "loop"
       \/ \E i \in 1..Len(script.reactions) : script.reactions[i].op = "asyncloop"

\* C3: the call of a script that never terminates, by a synchronous loop or by
\* asynchronous waiting, returns a failure whose error contains "timeout".
C3_NonTerminatingTimesOut ==
    \A e \in Execs :
        (Returned(e) /\ NeverTerminates(ScriptOf(e))) =>
            /\ ~exec[e].success
            /\ Includes(exec[e].error, "timeout")

\* C4: once a call has returned, its script takes no further step: no promise
\* reaction of the script runs after the return.
C4_NoStepAfterReturn ==
    [][\A e \in Execs : Returned(e) => ~RunReaction(e)]_vars

Returns(e) == ~exec[e].done /\ exec'[e].done

\* C5: the step on which a call fails (the script threw) changes neither tier
\* of the store, so every value committed before stays; and a call of the
\* script that sets session variable "a" to "A", made after a failed call,
\* returns success with "a" = "A" in the store.
C5_FailureIsolation ==
    [][\A e \in Execs :
          /\ (Returns(e) /\ ~exec'[e].success) =>
                /\ memoryStore' = memoryStore
                /\ persistentStore' = persistentStore
          /\ (/\ Returns(e)
              /\ Scripts[exec'[e].sid] = SetScript
              /\ \E f \in Execs : Returned(f) /\ ~exec[f].success) =>
                /\ exec'[e].success
                /\ getMemory(KeyA)' = "A"]_vars

C5_Witness ==
    /\ Returned(1) /\ ScriptOf(1) = IncrScript /\ exec[1].success
    /\ Returned(2) /\ ScriptOf(2) = ThrowScript /\ ~exec[2].success
    /\ exec[2].error = <<"Intentional crash">>
    /\ Returned(3) /\ ScriptOf(3) = SetScript /\ exec[3].success
    /\ getMemory(KeyCounter) = "1"
    /\ getMemory(KeyA) = "A"

Started == {e \in Execs : exec[e].sid # 0}

\* C6: when every call made so far runs the counter script and all of them
\* have returned, "counter" holds the number of calls: no increment is lost.
C6_NoLostIncrement ==
    ((\A e \in Started : Returned(e) /\ ScriptOf(e) = IncrScript) /\ Started # {}) =>
        getMemory(KeyCounter) = NumberToString(Cardinality(Started))

C6_Witness ==
    /\ Started = Execs
    /\ \A e \in Execs : Returned(e) /\ ScriptOf(e) = IncrScript /\ exec[e].success
    /\ getMemory(KeyCounter) = NumberToString(NumExecs)

\* the vm terminates the run of call e: its deadline is exceeded
ExceedsDeadline(e) ==
    AtOp(e, "loop") /\ Parses(e) /\ exec[e].elapsed >= exec[e].timeout

\* C18: a failed call is reported as a timeout (the result has no kind; its
\* error contains "timeout", the mark callers test for) if and only if the run
\* exceeded its deadline: a script that throws, whatever the message, is not.
C18_TimeoutIffDeadline ==
    [][\A e \in Execs :
          (Returns(e) /\ ~exec'[e].success) =>
              (Includes(exec'[e].error, "timeout") <=> ExceedsDeadline(e))]_vars

\* C19: client.global.clear(name) leaves name absent from the session tier
\* and every other session variable as it was; client.global.clear() empties
\* the session tier and leaves the persistent tier as it was.
C19_ClearByName ==
    [][\A e \in Execs :
          /\ StepClearName(e) =>
                /\ MapGet(memoryStore', CurrentOp(e).key) = Undefined
                /\ \A k \in DOMAIN memoryStore \ {CurrentOp(e).key} :
                       MapGet(memoryStore', k) = getMemory(k)
          /\ StepClear(e) =>
                /\ memoryStore' = EmptyMap
                /\ persistentStore' = persistentStore]_vars

(***************************************************************************)
(* Claims about the variable store, checked under StoreSpec.               *)
(***************************************************************************)
LineBreakFree(key) == sanitizeKey(key) = key

InATier(key) == key \in DOMAIN memoryStore \/ key \in DOMAIN persistentStore

\* C7 (as claimed): for every key k, get(k) returns the session value right
\* after setMemory(k, A) whatever the persistent tier holds; right after
\* setPersistent(k, B) it returns the session value when there is one and B
\* otherwise; after clearMemory() it returns the persistent value; and it is
\* absent only when k is in neither tier.
C7_LayeredLookup_EveryKey ==
    \A k \in Keys :
        /\ (hostCall.op = "setMemory" /\ hostCall.key = k) => get(k) = hostCall.value
        /\ (hostCall.op = "setPersistent" /\ hostCall.key = k) =>
               get(k) = IF k \in DOMAIN memoryStore THEN memoryStore[k]
                                                     ELSE hostCall.value
        /\ hostCall.op = "clearMemory" => get(k) = getPersistent(k)
        /\ get(k) = Undefined => ~InATier(k)

\* C7 (amended): the same, where the persistent value B is found under k only
\* for a key k free of line breaks; for any other key B is stored under
\* sanitizeKey(k), and get(k) keeps returning the session value of k, if any.
C7_LayeredLookup ==
    \A k \in Keys :
        /\ (hostCall.op = "setMemory" /\ hostCall.key = k) => get(k) = hostCall.value
        /\ (hostCall.op = "setPersistent" /\ hostCall.key = k) =>
               /\ k \in DOMAIN memoryStore => get(k) = memoryStore[k]
               /\ (k \notin DOMAIN memoryStore /\ LineBreakFree(k)) =>
                      get(k) = hostCall.value
               /\ sanitizeKey(k) \notin DOMAIN memoryStore =>
                      get(sanitizeKey(k)) = hostCall.value
        /\ hostCall.op = "clearMemory" => get(k) = getPersistent(k)
        /\ get(k) = Undefined => ~InATier(k)

C7_Witness ==
    /\ hostCall = Called("setPersistent", KeyA, "B")
    /\ KeyA \in DOMAIN memoryStore
    /\ memoryStore[KeyA] = "A"
    /\ persistentStore[KeyA] = "B"
    /\ get(KeyA) = "A"

\* C8: clearMemory() empties the session tier and changes the persistent tier
\* for no key: getPersistent returns the same value before and after the call.
C8_ClearMemoryFrame ==
    [][HostClearMemory =>
          /\ memoryStore' = EmptyMap
          /\ \A k \in Keys \cup DOMAIN persistentStore \cup DOMAIN persistentStore' :
                 getPersistent(k)' = getPersistent(k)]_vars

C8_Witness ==
    /\ hostCall.op = "clearMemory"
    /\ memoryStore = EmptyMap
    /\ KeyA \in DOMAIN persistentStore
    /\ KeyProto \in DOMAIN persistentStore

\* C9 (as claimed): right after setMemory(k, "") or setPersistent(k, ""), for
\* every key k, has(k) is true and get(k) is not absent: it is "" (for
\* setPersistent, unless a session value of k shadows it), also when the
\* persistent tier holds a non-empty value of k under a session "".
C9_EmptyString_EveryKey ==
    \A k \in Keys :
        /\ hostCall = Called("setMemory", k, "") => (has(k) /\ get(k) = "")
        /\ hostCall = Called("setPersistent", k, "") =>
               /\ has(k)
               /\ get(k) # Undefined
               /\ k \notin DOMAIN memoryStore => get(k) = ""

\* C9 (amended): as claimed for setMemory with every key; for setPersistent
\* with every key free of line breaks, and otherwise for the sanitized key.
C9_EmptyString ==
    \A k \in Keys :
        /\ hostCall = Called("setMemory", k, "") => (has(k) /\ get(k) = "")
        /\ hostCall = Called("setPersistent", k, "") =>
               /\ has(sanitizeKey(k))
               /\ get(sanitizeKey(k)) # Undefined
               /\ sanitizeKey(k) \notin DOMAIN memoryStore => get(sanitizeKey(k)) = ""

C9_Witness ==
    /\ hostCall = Called("setMemory", KeyA, "")
    /\ KeyA \in DOMAIN persistentStore
    /\ persistentStore[KeyA] = "B"
    /\ has(KeyA)
    /\ get(KeyA) = ""

\* C10: getAll() contains a key iff the key is in either tier, and maps it to
\* the session value when the session tier has the key and to the persistent
\* value otherwise.
C10_GetAllIsOverlay ==
    /\ DOMAIN getAll = DOMAIN memoryStore \cup DOMAIN persistentStore
    /\ \A k \in DOMAIN getAll :
           getAll[k] = IF k \in DOMAIN memoryStore THEN memoryStore[k]
                                                   ELSE persistentStore[k]

Settled == {"resolved", "rejected"}

WriterFailed == {"failed", "rejected"}

\* C11: the promise of a setPersistent call never resolves unless envWriter has
\* completed with success before; once envWriter has failed (it threw, or its
\* promise rejected) the promise of the call is rejected or its rejection is
\* the queued continuation of the call, and it stays so.
C11_WriterFailureRejects ==
    /\ [](\A w \in 1..Len(writes) :
             writes[w].st = "failed" =>
                 \E i \in 1..Len(microtasks) : microtasks[i] = Continuation(w))
    /\ [][\A w \in 1..Len(writes') :
             /\ writes'[w].st = "resolved" =>
                    (w <= Len(writes) /\ writes[w].st \in {"accepted", "resolved"})
             /\ (w <= Len(writes) /\ writes[w].st \in WriterFailed) =>
                    writes'[w].st \in WriterFailed
             /\ (w <= Len(writes) /\ writes[w].st = "writing") =>
                    writes'[w].st \notin Settled]_vars

C11_Witness ==
    /\ hostCall.op = "setPersistent"
    /\ hasWriter
    /\ writes # <<>>
    /\ writes[1].st = "rejected"
    /\ writes[1].key \in DOMAIN persistentStore
    /\ microtasks = <<>>

LineBreaks == {"\n", "\r"}

\* C20: the key of every envWriter invocation made by setPersistent contains
\* neither \n nor \r, whatever key setPersistent was given.
C20_WriterKeyHasNoLineBreak ==
    \A w \in 1..Len(writes) :
        \A i \in 1..Len(writes[w].key) : writes[w].key[i] \notin LineBreaks

C20_Witness ==
    /\ hostCall.op = "setPersistent"
    /\ hostCall.key = KeyNL
    /\ writes # <<>>
    /\ writes[1].key = KeyA
    /\ writes[1].value = hostCall.value

(***************************************************************************)
(* Claims about parseResponseHandler, checked under ParserSpec.            *)
(***************************************************************************)
Parsed == parsed # NotParsed

Has(property) == property \in DOMAIN parsed

ContentLines == split(content)

NoClosingIn(lines) == \A k \in 1..Len(lines) : ~includes(lines[k], ClosingDelimiter)

\* the text between an opening marker line and the line of the first "%}"
EnclosedText == SubSeq(ContentLines, 2, Len(ContentLines) - 1)

IsEnclosure ==
    /\ Len(ContentLines) >= 3
    /\ ContentLines[1] = OpenLine
    /\ ContentLines[Len(ContentLines)] = CloseLine
    /\ NoClosingIn(EnclosedText)

\* C12: for every script text placed between the opening marker line "> {%"
\* and the first following "%}" (here: every text that new Function accepts),
\* the parser returns no error and the script is the text with its outer
\* whitespace trimmed.
C12_RoundTrip ==
    (Parsed /\ IsEnclosure /\ ~ThrowsSyntaxError(trim(join(EnclosedText)))) =>
        /\ ~Has("error")
        /\ Has("script")
        /\ parsed.script = trim(join(EnclosedText))

\* a block is opened at line k and no line from there to the end has "%}"
OpenedUnclosedAt(k) ==
    /\ isResponseHandlerLine(ContentLines[k])
    /\ NoClosingIn(SubSeq(ContentLines, k, Len(ContentLines)))

MissingClosingOutcome == [hasHandler |-> TRUE, error |-> MissingClosingError]

ErrorFreeBefore(k) ==
    IF k = 1
    THEN TRUE
    ELSE "error" \notin
             DOMAIN parseResponseHandler(join(SubSeq(ContentLines, 1, k - 1)), startIndex)

HasSpacedClosing(line) ==
    \E p \in 1..Len(line), q \in 1..Len(line) :
        /\ line[p] = "%"
        /\ line[q] = "}"
        /\ q - p > 1
        /\ \A m \in (p + 1)..(q - 1) : line[m] \in WhitespaceChars

\* C14: a line with "%" and "}" separated by whitespace inside an open block
\* gives the malformed-closing diagnostic, which differs from the missing-
\* closing one, and that diagnostic is given for such a line only.
C14_MalformedOnlyWhenSpaced ==
    /\ InvalidClosingError # MissingClosingError
    /\ (/\ Parsed
        /\ \E k \in 2..Len(ContentLines) :
              /\ ContentLines[1] = OpenLine
              /\ HasSpacedClosing(ContentLines[k])
              /\ \A j \in 2..(k - 1) : ContentLines[j] = StatementLine) =>
           (Has("error") /\ parsed.error = InvalidClosingError)
    /\ (Parsed /\ Has("error") /\ parsed.error = InvalidClosingError) =>
           \E k \in 1..Len(ContentLines) : HasSpacedClosing(ContentLines[k])

\* C15: a result with an error has neither script nor handlers, and a result
\* with a script or handlers has no error.
C15_ErrorXorHandlers ==
    Parsed =>
        /\ Has("error") => (~Has("script") /\ ~Has("handlers"))
        /\ (Has("script") \/ Has("handlers")) => ~Has("error")

C15_Witness ==
    /\ content = join(<<OneLineHandler, OneLineHandler, OpenLine, SpacedCloseLine>>)
    /\ parsed = [hasHandler |-> TRUE, error |-> InvalidClosingError]

\* the blocks a result carries
BlocksOf(r) ==
    IF "handlers" \in DOMAIN r THEN r.handlers
    ELSE IF "script" \in DOMAIN r /\ r.hasHandler THEN <<[script |-> r.script]>>
    ELSE <<>>

\* line k is a well-formed one-line block of a definition of its own: the
\* first line of the text, or the line after a malformed closing marker
SiblingBlockAt(k) ==
    /\ ContentLines[k] = OneLineHandler
    /\ IF k = 1 THEN TRUE ELSE ContentLines[k - 1] = SpacedCloseLine

\* C16: a diagnostic in one block does not stop the extraction of the well-
\* formed blocks of the other definitions of the text, before or after it.
C16_SiblingsExtracted ==
    Parsed =>
        \A k \in 1..Len(ContentLines) :
            SiblingBlockAt(k) =>
                \E b \in 1..Len(BlocksOf(parsed)) :
                    BlocksOf(parsed)[b].script = <<"a">>

OnlyOneLineHandlers ==
    \A k \in 1..Len(ContentLines) :
        ContentLines[k] \in {OneLineHandler, StatementLine, EmptyLine}

HandlerLines == {k \in 1..Len(ContentLines) : ContentLines[k] = OneLineHandler}

RECURSIVE InOrder(_)
InOrder(S) == IF S = {} THEN <<>> ELSE <<Least(S)>> \o InOrder(S \ {Least(S)})

ExpectedBlocks ==
    [b \in 1..Cardinality(HandlerLines) |->
        ParsedHandler(<<"a">>, (InOrder(HandlerLines)[b] - 1) + startIndex)]

\* C17: for a text of zero, one or many well-formed blocks the result carries
\* all blocks in source order, each with its starting line (the index of its
\* opening line plus startIndex).
C17_AllBlocksWithStartLine ==
    (Parsed /\ OnlyOneLineHandlers) => BlocksOf(parsed) = ExpectedBlocks

(***************************************************************************)
(* The redaction functions (redactHeaders, redactJsonBody, redactUrl,      *)
(* redactRequest).  Keys and patterns are sequences of characters; a       *)
(* value is a sequence of chunks of text.                                  *)
(***************************************************************************)
UpperCaseLetters ==
    <<"A", "B", "C", "D", "E", "F", "G", "H", "I", "J", "K", "L", "M",
      "N", "O", "P", "Q", "R", "S", "T", "U", "V", "W", "X", "Y", "Z">>

LowerCaseLetters ==
    <<"a", "b", "c", "d", "e", "f", "g", "h", "i", "j", "k", "l", "m",
      "n", "o", "p", "q", "r", "s", "t", "u", "v", "w", "x", "y", "z">>

toLowerCase(s) ==
    [i \in 1..Len(s) |->
        IF \E n \in 1..Len(UpperCaseLetters) : UpperCaseLetters[n] = s[i]
        THEN LowerCaseLetters[CHOOSE n \in 1..Len(UpperCaseLetters) :
                                  UpperCaseLetters[n] = s[i]]
        ELSE s[i]]

normalizeKeyCaseSensitive(key) == SelectSeq(key, LAMBDA c : c \notin {"-", "_"})

normalizeKey(key) == SelectSeq(toLowerCase(key), LAMBDA c : c \notin {"-", "_"})

matchesNonEmpty(key, patterns) ==
    \E p \in 1..Len(patterns) :
        /\ normalizeKey(patterns[p]) # <<>>
        /\ includes(normalizeKey(key), normalizeKey(patterns[p]))

\* normalizedPatterns.some((pattern) => normalizedKey.includes(pattern))
matches(key, patterns) ==
    \E p \in 1..Len(patterns) : includes(normalizeKey(key), normalizeKey(patterns[p]))

Mask == <<"****">>

BearerMask == <<"Bearer ", "****">>

\* headers is a reference to the object of the heap that holds the headers;
\* the object returned ({...headers} or result) is a new one
redactHeaders(h, headers, patterns) ==
    LET source == h[headers.id].entries
        result == [isArray |-> FALSE,
                   entries |-> [i \in 1..Len(source) |->
                      IF patterns = <<>> \/ ~matches(source[i].key, patterns)
                      THEN source[i]
                      ELSE [key |-> source[i].key,
                            value |-> IF startsWith(source[i].value, <<"Bearer ">>)
                                      THEN BearerMask ELSE Mask]]]
    IN  [heap |-> Append(h, result), value |-> [kind |-> "ref", id |-> Len(h) + 1]]

(***************************************************************************)
(* The body.  A value is a string or a reference to an object or array of  *)
(* the heap; an object is the list of its entries (Object.entries), an     *)
(* array has its indices as keys.  redactObject returns the value together *)
(* with the heap, in which the objects it created are allocated.           *)
(***************************************************************************)
Str(s) == [kind |-> "string", s |-> s]

Ref(id) == [kind |-> "ref", id |-> id]

Entry(key, value) == [key |-> key, value |-> value]

Result(h, value) == [heap |-> h, value |-> value]

\* target[key] = value
SetProperty(h, target, key, value) ==
    LET entries == h[target].entries
    IN  IF \E i \in 1..Len(entries) : entries[i].key = key
        THEN [h EXCEPT ![target].entries =
                 [i \in 1..Len(entries) |->
                     IF entries[i].key = key THEN Entry(key, value) ELSE entries[i]]]
        ELSE [h EXCEPT ![target].entries = Append(entries, Entry(key, value))]

PastDepthLimit(depth) == depth > RedactionDepthLimit

AtDepthLimit(depth) == depth >= RedactionDepthLimit

RECURSIVE redactObject(_, _, _, _)
RECURSIVE RedactEntries(_, _, _, _, _, _)
RECURSIVE RedactStringEntries(_, _, _, _, _, _)
RedactStringEntries(h, source, i, target, patterns, depth) ==
    IF i > Len(h[source].entries)
    THEN h
    ELSE LET entry == h[source].entries[i]
             r == IF h[source].isArray \/ entry.value.kind = "ref"
                  THEN redactObject(h, entry.value, patterns, depth + 1)
                  ELSE IF matches(entry.key, patterns)
                  THEN Result(h, Str(Mask))
                  ELSE Result(h, entry.value)
         IN  RedactStringEntries(SetProperty(r.heap, target, entry.key, r.value),
                                 source, i + 1, target, patterns, depth)

\* the loop over Object.entries(obj), or obj.map for an array, from entry i on
RedactEntries(h, source, i, target, patterns, depth) ==
    IF i > Len(h[source].entries)
    THEN h
    ELSE LET entry == h[source].entries[i]
             r == IF h[source].isArray
                  THEN redactObject(h, entry.value, patterns, depth + 1)
                  ELSE IF matches(entry.key, patterns)
                  THEN Result(h, Str(Mask))
                  ELSE IF entry.value.kind = "ref"
                  THEN redactObject(h, entry.value, patterns, depth + 1)
                  ELSE Result(h, entry.value)
         IN  RedactEntries(SetProperty(r.heap, target, entry.key, r.value),
                           source, i + 1, target, patterns, depth)

redactObjectInPlace(h, obj, patterns, depth) ==
    IF AtDepthLimit(depth) \/ obj.kind # "ref"
    THEN Result(h, obj)
    ELSE Result(RedactEntries(h, obj.id, 1, obj.id, patterns, depth), obj)

redactObject(h, obj, patterns, depth) ==
    IF AtDepthLimit(depth) \/ obj.kind # "ref"
    THEN Result(h, obj)
    ELSE LET result == Len(h) + 1
             allocated == Append(h, [isArray |-> h[obj.id].isArray, entries |-> <<>>])
         IN  Result(RedactEntries(allocated, obj.id, 1, result, patterns, depth),
                    Ref(result))

\* a body is an object, a string that JSON.parse accepts (json: the parsed
\* value) or a string that JSON.parse rejects (text)
redactJsonBody(h, body, patterns) ==
    IF patterns = <<>> \/ body.kind = "text"
    THEN Result(h, body)
    ELSE IF body.kind = "json"
    THEN LET r == redactObject(h, body.parsed, patterns, 0)
         IN  Result(r.heap, [kind |-> "json", parsed |-> r.value])
    ELSE redactObject(h, body, patterns, 0)

(***************************************************************************)
(* The URL.  A URL string is held by its components as written: userinfo,  *)
(* host, path, the name=value pairs of the query and the fragment; a       *)
(* string new URL() rejects is held by its text.  Percent escapes are one  *)
(* element of a sequence of characters.                                    *)
(***************************************************************************)
Param(name, value) == [name |-> name, value |-> value]

\* application/x-www-form-urlencoded parsing of a name or a value
formDecode(s) == [i \in 1..Len(s) |-> IF s[i] \in {"+", "%20"} THEN " " ELSE s[i]]

\* application/x-www-form-urlencoded serializing of a name or a value
formEncode(s) == [i \in 1..Len(s) |-> IF s[i] = " " THEN "+" ELSE s[i]]

\* new URL(url): the host is lowercased and an empty path becomes "/"
URL(url) ==
    [username |-> url.username, password |-> url.password,
     host |-> toLowerCase(url.host),
     path |-> IF url.path = <<>> THEN <<"/">> ELSE url.path,
     search |-> url.query,
     list |-> [i \in 1..Len(url.query) |->
                  Param(formDecode(url.query[i].name), formDecode(url.query[i].value))],
     fragment |-> url.fragment]

\* params.set(name, value): the first pair of that name takes the value, the
\* other pairs of that name are removed, and the query is serialized again
searchParamsSet(u, name, value) ==
    LET first == Least({i \in 1..Len(u.list) : u.list[i].name = name})
        kept == {i \in 1..Len(u.list) : u.list[i].name = name => i = first}
        Index(n) == CHOOSE i \in kept : Cardinality({j \in kept : j < i}) = n - 1
        list == [n \in 1..Cardinality(kept) |->
                    IF Index(n) = first THEN Param(name, value) ELSE u.list[Index(n)]]
    IN  [u EXCEPT !.list = list,
                       !.search = [n \in 1..Len(list) |->
                                      Param(formEncode(list[n].name), formEncode(list[n].value))]]

\* parsed.toString()
urlToString(u) ==
    [valid |-> TRUE, username |-> u.username, password |-> u.password,
     host |-> u.host, path |-> u.path, query |-> u.search,
     fragment |-> u.fragment]

RECURSIVE RedactParams(_, _, _)
\* for (const [key] of params), from pair i on
RedactParams(u, i, patterns) ==
    IF i > Len(u.list)
    THEN u
    ELSE RedactParams(IF matches(u.list[i].name, patterns)
                      THEN searchParamsSet(u, u.list[i].name, Mask)
                      ELSE u,
                      i + 1, patterns)

redactUrl(url, patterns) ==
    IF patterns = <<>> \/ ~url.valid
    THEN url
    ELSE urlToString(RedactParams([URL(url) EXCEPT !.username = <<>>, !.password = <<>>],
                                  1, patterns))

\* a property of config that is absent is absent from the record
redactRequest(h, c) ==
    LET patterns == c.patterns
        headers == IF "headers" \in DOMAIN c
                   THEN redactHeaders(h, c.headers, patterns) ELSE Result(h, <<>>)
        body == IF "body" \in DOMAIN c
                THEN redactJsonBody(headers.heap, c.body, patterns) ELSE Result(headers.heap, <<>>)
    IN  Result(body.heap,
               (IF "headers" \in DOMAIN c THEN [headers |-> headers.value] ELSE <<>>)
               @@ (IF "body" \in DOMAIN c THEN [body |-> body.value] ELSE <<>>)
               @@ (IF "url" \in DOMAIN c THEN [url |-> redactUrl(c.url, patterns)] ELSE <<>>))

(***************************************************************************)
(* The calls of the redaction functions, each on a configuration chosen    *)
(* at the start: patterns, headers, a body of up to MaxNesting levels and  *)
(* a URL.                                                                  *)
(***************************************************************************)
PatternChoices ==
    {<<>>,
     <<<<"k", "e", "y">>>>,
     <<<<"A", "P", "I", "_", "K", "E", "Y">>>>,
     <<<<"k", ".", "y">>>>,
     <<<<"-">>>>,
     <<<<"t", "o", "k", "e", "n">>, <<"k", "e", "y">>>>}

HeaderChoices ==
    {<<Entry(<<"X", "-", "A", "p", "i", "-", "K", "e", "y">>, <<"s", "3", "c", "r", "e", "t">>),
       Entry(<<"k", "x", "y">>, <<"v">>),
       Entry(<<"K", ".", "Y">>, <<"v">>),
       Entry(<<"H", "o", "s", "t">>, <<"a", "p", "i", ".", "c", "o", "m">>),
       Entry(<<"A", "u", "t", "h", "o", "r", "i", "z", "a", "t", "i", "o", "n">>, <<"Bearer ", "t", "o", "k">>)>>}

\* the object at level i of a body nested n levels: a secret under "key", the
\* next level under "level"; the last level of a circular body refers to the
\* root under "self"; level 2 of an array body is an array holding level 3;
\* the root of a list body is an array of a string and of level 2
BodyObject(n, i, shape) ==
    IF shape = "array" /\ i = 2 /\ n > 2
    THEN [isArray |-> TRUE, entries |-> <<Entry(<<"0">>, Ref(3))>>]
    ELSE IF shape = "list" /\ i = 1
    THEN [isArray |-> TRUE,
          entries |-> <<Entry(<<"0">>, Str(<<"s", "3", "c", "r", "e", "t">>))>>
                      \o (IF n > 1 THEN <<Entry(<<"1">>, Ref(2))>> ELSE <<>>)]
    ELSE [isArray |-> FALSE,
          entries |-> <<Entry(<<"k", "e", "y">>, Str(<<"s", "3", "c", "r", "e", "t">>))>>
                      \o (IF i < n THEN <<Entry(<<"l", "e", "v", "e", "l">>, Ref(i + 1))>> ELSE <<>>)
                      \o (IF i = n /\ shape = "circular"
                          THEN <<Entry(<<"s", "e", "l", "f">>, Ref(1))>> ELSE <<>>)]

BodyHeap(n, shape) == [i \in 1..n |-> BodyObject(n, i, shape)]

BodyShapes == {"object", "circular", "array", "json", "text", "list"}

BodyOf(shape) ==
    IF shape = "text" THEN [kind |-> "text", s |-> <<"{this is not json}">>]
    ELSE IF shape \in {"json", "list"} THEN [kind |-> "json", parsed |-> Ref(1)]
    ELSE Ref(1)

UrlChoices ==
    {[valid |-> FALSE, text |-> <<"not a url at all">>]}
    \cup
    [valid : {TRUE},
     username : {<<>>, <<"u", "s", "e", "r">>},
     password : {<<>>, <<"p", "a", "s", "s", "w", "o", "r", "d">>},
     host : {<<"a", "p", "i", ".", "c", "o", "m">>, <<"A", "P", "I", ".", "c", "o", "m">>},
     path : {<<>>, <<"/", "d", "a", "t", "a">>},
     query : {<<>>,
              <<Param(<<"t", "o", "k", "e", "n">>, <<"s", "3", "c", "r", "e", "t">>)>>,
              <<Param(<<"q">>, <<"a", "%20", "b">>), Param(<<"t", "o", "k", "e", "n">>, <<"s", "3", "c", "r", "e", "t">>)>>,
              <<Param(<<"t", "o", "k", "e", "n">>, <<"s", "3", "c", "r", "e", "t">>), Param(<<"t", "o", "k", "e", "n">>, <<"v">>)>>,
              <<Param(<<"q">>, <<"a", "%20", "b">>)>>},
     fragment : {<<>>, <<"s", "e", "c", "t", "i", "o", "n">>}]

RedactInit ==
    /\ memoryStore = EmptyMap
    /\ persistentStore = EmptyMap
    /\ hasWriter = FALSE
    /\ writes = <<>>
    /\ microtasks = <<>>
    /\ exec = [e \in 1..NumExecs |-> NotStarted]
    /\ running = 0
    /\ hostCall = NoCall
    /\ NoParse
    /\ NoCommand
    /\ \E patterns \in PatternChoices, n \in 1..MaxNesting, shape \in BodyShapes :
         \E headers \in {<<>>} \cup HeaderChoices,
            url \in {<<>>} \cup {[url |-> u] : u \in UrlChoices} :
              \* the URL varies with the smallest body, the body without a URL
              /\ url = <<>> \/ (n = 1 /\ shape = "object")
              \* the headers object, when there is one, follows the body in the heap
              /\ heap = BodyHeap(n, shape)
                          \o (IF headers = <<>> THEN <<>>
                              ELSE <<[isArray |-> FALSE, entries |-> headers]>>)
              /\ config = [patterns |-> patterns, body |-> BodyOf(shape)]
                            @@ (IF headers = <<>> THEN <<>> ELSE [headers |-> Ref(n + 1)])
                            @@ url
    /\ redacted = NotRedacted

RedactHeadersCall ==
    /\ redacted = NotRedacted
    /\ "headers" \in DOMAIN config
    /\ LET r == redactHeaders(heap, config.headers, config.patterns)
       IN  /\ heap' = r.heap
           /\ redacted' = [headers |-> r.value]
    /\ UNCHANGED config
    /\ UNCHANGED <<memoryStore, persistentStore, hasWriter, writes, microtasks, exec,
                   running, hostCall, parserVars, commandVars>>

RedactJsonBodyCall ==
    /\ redacted = NotRedacted
    /\ LET r == redactJsonBody(heap, config.body, config.patterns)
       IN  /\ heap' = r.heap
           /\ redacted' = [body |-> r.value]
    /\ UNCHANGED config
    /\ UNCHANGED <<memoryStore, persistentStore, hasWriter, writes, microtasks, exec,
                   running, hostCall, parserVars, commandVars>>

RedactUrlCall ==
    /\ redacted = NotRedacted
    /\ "url" \in DOMAIN config
    /\ redacted' = [url |-> redactUrl(config.url, config.patterns)]
    /\ UNCHANGED <<config, heap>>
    /\ UNCHANGED <<memoryStore, persistentStore, hasWriter, writes, microtasks, exec,
                   running, hostCall, parserVars, commandVars>>

RedactRequestCall ==
    /\ redacted = NotRedacted
    /\ LET r == redactRequest(heap, config)
       IN  /\ heap' = r.heap
           /\ redacted' = [request |-> r.value]
    /\ UNCHANGED config
    /\ UNCHANGED <<memoryStore, persistentStore, hasWriter, writes, microtasks, exec,
                   running, hostCall, parserVars, commandVars>>

RedactNext ==
    \/ RedactHeadersCall
    \/ RedactJsonBodyCall
    \/ RedactUrlCall
    \/ RedactRequestCall

RedactSpec == RedactInit /\ [][RedactNext]_vars

(***************************************************************************)
(* The execute command: variables.  A text is a sequence of characters;    *)
(* the scheme, the host and the path of a URL are one element each.        *)
(***************************************************************************)
\* \w
WordCharacters ==
    {UpperCaseLetters[i] : i \in 1..Len(UpperCaseLetters)}
    \cup {LowerCaseLetters[i] : i \in 1..Len(LowerCaseLetters)}
    \cup {Digits[i] : i \in 1..Len(Digits)} \cup {"_"}

RECURSIVE WordRunEnd(_, _)
\* the first index from j on that holds no \w character
WordRunEnd(text, j) ==
    IF j <= Len(text) /\ text[j] \in WordCharacters THEN WordRunEnd(text, j + 1) ELSE j

\* the name of the match of /\{\{(\w+)\}\}/ that starts at index i, <<>> when
\* none starts there
MatchAt(text, i) ==
    LET j == WordRunEnd(text, i + 2)
    IN  IF /\ i + 1 <= Len(text) /\ text[i] = "{" /\ text[i + 1] = "{"
           /\ j > i + 2
           /\ j + 1 <= Len(text) /\ text[j] = "}" /\ text[j + 1] = "}"
        THEN SubSeq(text, i + 2, j - 1)
        ELSE <<>>

RECURSIVE matchAll(_, _)
matchAll(text, i) ==
    IF i > Len(text) THEN <<>>
    ELSE IF MatchAt(text, i) # <<>>
    THEN <<MatchAt(text, i)>> \o matchAll(text, i + Len(MatchAt(text, i)) + 4)
    ELSE matchAll(text, i + 1)

\* Array.from(new Set(names)): the first occurrence of each name, in order
RECURSIVE Unique(_)
Unique(names) ==
    IF names = <<>> THEN <<>>
    ELSE LET front == Unique(SubSeq(names, 1, Len(names) - 1))
             last == names[Len(names)]
         IN  IF \E i \in 1..Len(front) : front[i] = last THEN front ELSE Append(front, last)

extractVariables(text) == Unique(matchAll(text, 1))

\* the lines KEY=VALUE of the .env file whose key is written with capital
\* letters, digits and '_' and does not begin with a digit, a later line of a
\* key replacing an earlier one; quotes around a value are removed
loadEnvFile(lines) ==
    LET Upper == {UpperCaseLetters[i] : i \in 1..Len(UpperCaseLetters)}
        Matched(l) == /\ lines[l].key # <<>>
                      /\ lines[l].key[1] \in Upper \cup {"_"}
                      /\ \A i \in 1..Len(lines[l].key) :
                            lines[l].key[i] \in Upper \cup {"_"} \cup {Digits[d] : d \in 1..Len(Digits)}
        Unquoted(value) == IF Len(value) >= 2 /\ value[1] = value[Len(value)]
                              /\ value[1] \in {"\"", "'"}
                           THEN SubSeq(value, 2, Len(value) - 1) ELSE value
    IN  [key \in {lines[l].key : l \in {n \in 1..Len(lines) : Matched(n)}} |->
            Unquoted(lines[Greatest({l \in 1..Len(lines) :
                                        Matched(l) /\ lines[l].key = key})].value)]

\* the resolved variables in the order of Object.entries: .env first, then the
\* shell environment
resolveVariables(envFileVars, shell, requiredVariables) ==
    LET found == SelectSeq(requiredVariables,
                           LAMBDA v : v \in DOMAIN envFileVars \/ v \in DOMAIN shell)
    IN  [i \in 1..Len(found) |->
            [key |-> found[i],
             value |-> IF found[i] \in DOMAIN envFileVars
                       THEN envFileVars[found[i]] ELSE shell[found[i]]]]

validateVariables(required, resolved) ==
    SelectSeq(required, LAMBDA v : ~\E i \in 1..Len(resolved) : resolved[i].key = v)

RECURSIVE replaceAll(_, _, _, _)
\* text.replace(/\{\{key\}\}/g, value), from index i on
replaceAll(text, i, key, value) ==
    IF i > Len(text) THEN <<>>
    ELSE IF MatchAt(text, i) = key
    THEN value \o replaceAll(text, i + Len(key) + 4, key, value)
    ELSE <<text[i]>> \o replaceAll(text, i + 1, key, value)

RECURSIVE interpolateVariables(_, _)
interpolateVariables(text, variables) ==
    IF variables = <<>> THEN text
    ELSE interpolateVariables(replaceAll(text, 1, variables[1].key, variables[1].value),
                              Tail(variables))

\* the processed request, or the missing variables of the MissingVariableError
processRequestVariables(envFileVars, shell, url, headers, body) ==
    LET RECURSIVE headerVars(_)
        headerVars(i) == IF i > Len(headers) THEN <<>>
                         ELSE extractVariables(headers[i].value) \o headerVars(i + 1)
        allVars == Unique(extractVariables(url) \o headerVars(1) \o extractVariables(body))
        resolved == resolveVariables(envFileVars, shell, allVars)
    IN  [missing |-> validateVariables(allVars, resolved),
         url |-> interpolateVariables(url, resolved),
         headers |-> [i \in 1..Len(headers) |->
                         [key |-> headers[i].key,
                          value |-> interpolateVariables(headers[i].value, resolved)]],
         body |-> interpolateVariables(body, resolved)]

(***************************************************************************)
(* The execute command: the request, the network call and the output.      *)
(***************************************************************************)
Ellipsis == <<".", ".", ".">>

extractTokenPrefix(credentials) ==
    LET first == indexOf(credentials, <<"_">>, 0)
        second == IF first = -1 THEN -1 ELSE indexOf(credentials, <<"_">>, first + 1)
        IsDigit(i) == i <= Len(credentials) /\ \E d \in 1..Len(Digits) : Digits[d] = credentials[i]
        digits == IF ~IsDigit(second + 2) THEN 0 ELSE IF ~IsDigit(second + 3) THEN 1 ELSE 2
        hyphen == indexOf(credentials, <<"-">>, 0)
    IN  IF first >= 1 /\ second > first + 1
        THEN SubSeq(credentials, 1, second + 1 + digits)
        ELSE IF hyphen >= 1
        THEN SubSeq(credentials, 1, hyphen + 1)
        ELSE SubSeq(credentials, 1, IF Len(credentials) < 2 THEN Len(credentials) ELSE 2)

redactAuthorizationHeader(value) ==
    LET space == indexOf(value, <<" ">>, 0)
    IN  IF space # -1
        THEN SubSeq(value, 1, space) \o <<" ">>
             \o extractTokenPrefix(SubSeq(value, space + 2, Len(value))) \o Ellipsis
        ELSE IF Len(value) > 3
        THEN extractTokenPrefix(value) \o Ellipsis
        ELSE value

isSensitiveHeader(headerName) ==
    toLowerCase(headerName) \in {<<"a", "u", "t", "h", "o", "r", "i", "z", "a", "t", "i", "o", "n">>,
                                 <<"x", "-", "a", "p", "i", "-", "k", "e", "y">>,
                                 <<"a", "p", "i", "-", "k", "e", "y">>,
                                 <<"x", "-", "a", "u", "t", "h", "-", "t", "o", "k", "e", "n">>,
                                 <<"a", "u", "t", "h", "-", "t", "o", "k", "e", "n">>}

\* redactHeaders of the execute command
redactSensitiveHeaders(headers) ==
    [i \in 1..Len(headers) |->
        [key |-> headers[i].key,
         value |-> IF isSensitiveHeader(headers[i].key)
                   THEN redactAuthorizationHeader(headers[i].value)
                   ELSE headers[i].value]]

isSensitiveQueryParam(paramName) ==
    \E word \in {<<"t", "o", "k", "e", "n">>, <<"k", "e", "y">>, <<"s", "e", "c", "r", "e", "t">>, <<"p", "a", "s", "s", "w", "o", "r", "d">>} :
        includes(toLowerCase(paramName), word)

RECURSIVE QueryPairs(_)
\* the name=value pairs of the text of a query
QueryPairs(text) ==
    LET amp == indexOf(text, <<"&">>, 0)
        pair == IF amp = -1 THEN text ELSE SubSeq(text, 1, amp)
        eq == indexOf(pair, <<"=">>, 0)
        rest == IF amp = -1 THEN <<>> ELSE QueryPairs(SubSeq(text, amp + 2, Len(text)))
    IN  IF text = <<>> THEN <<>>
        ELSE IF pair = <<>> THEN rest
        ELSE IF eq = -1 THEN <<Param(pair, <<>>)>> \o rest
        ELSE <<Param(SubSeq(pair, 1, eq), SubSeq(pair, eq + 2, Len(pair)))>> \o rest

\* the components of a text as new URL() reads them: the scheme and the host
\* (one element each), the path up to "?" and the query; a text that does not
\* begin with a scheme is rejected.  The URLs here have no userinfo and no
\* fragment.
AsUrl(text) ==
    IF Len(text) >= 2 /\ text[1] = "https://"
    THEN LET rest == SubSeq(text, 3, Len(text))
             mark == indexOf(rest, <<"?">>, 0)
         IN  [valid |-> TRUE, username |-> <<>>, password |-> <<>>, host |-> <<text[2]>>,
              path |-> IF mark = -1 THEN rest ELSE SubSeq(rest, 1, mark),
              query |-> IF mark = -1 THEN <<>>
                        ELSE QueryPairs(SubSeq(rest, mark + 2, Len(rest))),
              fragment |-> <<>>]
    ELSE [valid |-> FALSE, text |-> text]

RECURSIVE RedactSensitiveParams(_, _)
\* for (const [key] of urlObj.searchParams.entries()), from pair i on
RedactSensitiveParams(urlObj, i) ==
    IF i > Len(urlObj.list)
    THEN urlObj
    ELSE RedactSensitiveParams(IF isSensitiveQueryParam(urlObj.list[i].name)
                               THEN searchParamsSet(urlObj, urlObj.list[i].name, <<"***">>)
                               ELSE urlObj,
                               i + 1)

redactUrlQueryParams(url) ==
    IF AsUrl(url).valid
    THEN urlToString(RedactSensitiveParams(URL(AsUrl(url)), 1))
    ELSE AsUrl(url)

redactRequestForOutput(url, headers) ==
    [url |-> redactUrlQueryParams(url), headers |-> redactSensitiveHeaders(headers)]

\* the catch block of executeHttpRequest
NetworkError ==
    [error |-> [type |-> "NetworkError"], request |-> [url |-> AsUrl(request.url)]]

UrlTexts ==
    {<<"https://", "api.com", "/data", "?", "t", "o", "k", "e", "n", "=", "{", "{", "T", "O", "K", "E", "N", "}", "}">>,
     <<"https://", "api.com", "/data", "?", "a", "p", "i", "_", "k", "e", "y", "=", "a", "b", "c", "1", "2", "3", "&", "p", "a", "g", "e", "=", "1">>,
     <<"api.com", "/data", "?", "t", "o", "k", "e", "n", "=", "a", "b", "c", "1", "2", "3">>}

HeaderLists ==
    {<<>>,
     <<Entry(<<"A", "u", "t", "h", "o", "r", "i", "z", "a", "t", "i", "o", "n">>, <<"B", "e", "a", "r", "e", "r", " ", "{", "{", "T", "O", "K", "E", "N", "}", "}">>)>>,
     <<Entry(<<"X", "-", "A", "P", "I", "-", "K", "e", "y">>, <<"{", "{", "T", "O", "K", "E", "N", "}", "}">>)>>,
     <<Entry(<<"X", "-", "A", "P", "I", "-", "K", "e", "y">>, <<"{", "{", "A", "P", "I", "-", "K", "E", "Y", "}", "}">>)>>,
     <<Entry(<<"X", "-", "I", "d">>, <<"{", "{", "i", "d", "}", "}">>)>>}

BodyTexts == {<<>>, <<"{", "{", "T", "O", "K", "E", "N", "}", "}">>}

EnvFiles ==
    {<<>>,
     <<Entry(<<"T", "O", "K", "E", "N">>, <<"s", "k", "-", "a", "b", "c", "1", "2", "3">>)>>,
     <<Entry(<<"T", "O", "K", "E", "N">>, <<"a", "b", "c">>), Entry(<<"i", "d">>, <<"5">>)>>}

ShellEnvironments ==
    {EmptyMap,
     (<<"T", "O", "K", "E", "N">> :> <<"a", "_", "b", "_", "1", "2">>),
     (<<"T", "O", "K", "E", "N">> :> <<"a", "_", "b", "_", "1", "2">>) @@ (<<"i", "d">> :> <<"7">>)}

CommandInit ==
    /\ memoryStore = EmptyMap
    /\ persistentStore = EmptyMap
    /\ hasWriter = FALSE
    /\ writes = <<>>
    /\ microtasks = <<>>
    /\ exec = [e \in 1..NumExecs |-> NotStarted]
    /\ running = 0
    /\ hostCall = NoCall
    /\ NoParse
    /\ NoRedaction
    /\ request \in [url : UrlTexts, headers : HeaderLists, body : BodyTexts]
    /\ dotEnv \in EnvFiles
    /\ processEnv \in ShellEnvironments
    /\ fetched = <<>>
    /\ stdout = <<>>
    /\ exitCode = NotExited

\* executeHttpRequest up to the call of fetch
ExecuteHttpRequest ==
    /\ exitCode = NotExited
    /\ fetched = <<>>
    /\ LET processed == processRequestVariables(loadEnvFile(dotEnv), processEnv,
                                                request.url, request.headers, request.body)
       IN  IF processed.missing # <<>>
           THEN /\ stdout' = Append(stdout, [error |-> [type |-> "MissingVariableError",
                                                        variables |-> processed.missing]])
                /\ exitCode' = 1
                /\ UNCHANGED fetched
           ELSE IF ~AsUrl(processed.url).valid
           THEN /\ stdout' = Append(stdout, NetworkError)
                /\ exitCode' = 1
                /\ UNCHANGED fetched
           ELSE /\ fetched' = <<[url |-> processed.url, headers |-> processed.headers,
                                 body |-> processed.body]>>
                /\ UNCHANGED <<stdout, exitCode>>
    /\ UNCHANGED <<request, dotEnv, processEnv>>
    /\ UNCHANGED <<memoryStore, persistentStore, hasWriter, writes, microtasks, exec,
                   running, hostCall, parserVars, redactVars>>

\* the response arrives: the result is built, executeRequest writes it and exits
FetchResolves ==
    /\ exitCode = NotExited
    /\ fetched # <<>>
    /\ LET redactedRequest == redactRequestForOutput(fetched[1].url, fetched[1].headers)
       IN  stdout' = Append(stdout, [request |-> [url |-> redactedRequest.url,
                                                  headers |-> redactedRequest.headers,
                                                  body |-> fetched[1].body]])
    /\ exitCode' = 0
    /\ UNCHANGED <<request, dotEnv, processEnv, fetched>>
    /\ UNCHANGED <<memoryStore, persistentStore, hasWriter, writes, microtasks, exec,
                   running, hostCall, parserVars, redactVars>>

\* fetch rejects: the catch block writes the NetworkError and exits
FetchRejects ==
    /\ exitCode = NotExited
    /\ fetched # <<>>
    /\ stdout' = Append(stdout, NetworkError)
    /\ exitCode' = 1
    /\ UNCHANGED <<request, dotEnv, processEnv, fetched>>
    /\ UNCHANGED <<memoryStore, persistentStore, hasWriter, writes, microtasks, exec,
                   running, hostCall, parserVars, redactVars>>

CommandNext ==
    \/ ExecuteHttpRequest
    \/ FetchResolves
    \/ FetchRejects

CommandSpec == CommandInit /\ [][CommandNext]_vars

\* the line has '>' after nothing but spaces and "{%" somewhere after it
OpensBlock(line) ==
    \E i \in 1..Len(line) :
        /\ line[i] = ">"
        /\ \A j \in 1..(i - 1) : line[j] = " "
        /\ \E k \in (i + 1)..(Len(line) - 1) : line[k] = "{" /\ line[k + 1] = "%"

\* C29: the result is { hasHandler: false, script: "" } iff no line of the
\* text, its leading whitespace set aside, starts with '>' and contains "{%";
\* a line with "> {%" after other text opens no block and a "%}" without an
\* opening line is ignored.
C29_NoHandlerIffNoOpeningLine ==
    Parsed => LET lines == ContentLines
              IN  (parsed = [hasHandler |-> FALSE, script |-> <<>>])
                  <=> \A l \in 1..Len(lines) : ~OpensBlock(lines[l])

C29_Witness ==
    /\ Parsed
    /\ parsed = [hasHandler |-> FALSE, script |-> <<>>]
    /\ \E l \in 1..Len(ContentLines) : ContentLines[l] = NotOpeningLine
    /\ \E l \in 1..Len(ContentLines) : ContentLines[l] = CloseLine

C29_WitnessIndented ==
    /\ Parsed
    /\ parsed.hasHandler
    /\ \A l \in 1..Len(ContentLines) : ContentLines[l] \in {OverlapLine, StatementLine}

HasClosing(line) == \E k \in 1..(Len(line) - 1) : line[k] = "%" /\ line[k + 1] = "}"

\* the index (from 1) at which the first a followed by b starts
FirstIndex(text, a, b) ==
    Least({k \in 1..(Len(text) - 1) : text[k] = a /\ text[k + 1] = b})

FirstScript == IF Has("script") THEN parsed.script ELSE parsed.handlers[1].script

\* For the first block of the text, collected from its opening line to the
\* first line from there on with "%}": Ordered(openingAt, closingAt) for the
\* indices of the first "{%" and the first "%}" of the accumulated text,
\* Extracted(between, last) for the trimmed text strictly between them.
FirstBlock(Ordered(_, _, _), Extracted(_, _)) ==
    LET lines == ContentLines
        opening == {l \in 1..Len(lines) : OpensBlock(lines[l])}
        first == Least(opening)
        closing == {l \in first..Len(lines) : HasClosing(lines[l])}
        last == Least(closing)
        accumulated == join(SubSeq(lines, first, last))
        openingAt == FirstIndex(accumulated, "{", "%")
        closingAt == FirstIndex(accumulated, "%", "}")
    IN  (/\ Parsed
         /\ opening # {}
         /\ closing # {}
         /\ \A l \in first..(last - 1) : ~MalformedClosing(lines[l]))
        => /\ Ordered(openingAt, closingAt, last)
           /\ closingAt > openingAt
              => Extracted(trim(SubSeq(accumulated, openingAt + 2, closingAt - 1)), last)

\* the diagnostic of a first block in order comes from a later block
OutOfOrderIff(openingAt, closingAt, last) ==
    /\ closingAt <= openingAt => parsed = [hasHandler |-> TRUE, error |-> OutOfOrderError]
    /\ (closingAt > openingAt /\ parsed = [hasHandler |-> TRUE, error |-> OutOfOrderError])
       => \E l \in (last + 1)..Len(ContentLines) : OpensBlock(ContentLines[l])

\* an error after a first block that has none comes from a later block
ScriptIs(between, last) ==
    /\ ThrowsSyntaxError(between) => parsed = [hasHandler |-> TRUE, error |-> SyntaxErrorInHandler]
    /\ ~ThrowsSyntaxError(between)
       => /\ ~Has("error") => FirstScript = between
          /\ Has("error") => \E l \in (last + 1)..Len(ContentLines) : OpensBlock(ContentLines[l])

\* C30: for the first block of the text, the result is the "markers out of
\* order" diagnostic exactly when the first "%}" of the accumulated text
\* starts at or before the first "{%"; when it starts after, the script is
\* the text strictly between the delimiters (nothing when they overlap as in
\* "{%}").
C30_OutOfOrderOrBetween == FirstBlock(OutOfOrderIff, ScriptIs)

\* the same for blocks whose delimiters do not overlap
C30_ExceptOverlap ==
    FirstBlock(OutOfOrderIff,
               LAMBDA between, last :
                  ScriptIs(between, last)
                  \/ (\E l \in 1..last : ContentLines[l] = OverlapLine))

C30_WitnessOutOfOrder ==
    /\ Parsed
    /\ ContentLines = <<OutOfOrderLine>>
    /\ parsed = [hasHandler |-> TRUE, error |-> OutOfOrderError]

(***************************************************************************)
(* Claims about redaction.                                                 *)
(***************************************************************************)
Redacted(property) == redacted # NotRedacted /\ property \in DOMAIN redacted

HasProperty(h, id, key) == \E i \in 1..Len(h[id].entries) : h[id].entries[i].key = key

\* the value of a property the object has
Property(h, id, key) ==
    h[id].entries[CHOOSE i \in 1..Len(h[id].entries) : h[id].entries[i].key = key].value

NestingKeys == {<<"l", "e", "v", "e", "l">>, <<"s", "e", "l", "f">>, <<"0">>}

NestsUnder(h, id, key) == HasProperty(h, id, key) /\ Property(h, id, key).kind = "ref"

\* the object or array one level below the object or array id, 0 when none
Nested(h, id) ==
    IF id # 0 /\ \E key \in NestingKeys : NestsUnder(h, id, key)
    THEN Property(h, id, CHOOSE key \in NestingKeys : NestsUnder(h, id, key)).id
    ELSE 0

RECURSIVE AtLevel(_, _, _)
\* the object or array at nesting level k below the root (level 1), 0 when none
AtLevel(h, root, k) == IF k = 1 THEN root ELSE Nested(h, AtLevel(h, root, k - 1))

RootOf(body) == IF body.kind = "json" THEN body.parsed.id ELSE body.id

MatchesOnlySecretKey(patterns) ==
    /\ matches(<<"k", "e", "y">>, patterns)
    /\ \A key \in NestingKeys : ~matches(key, patterns)

\* C21: with the root counted as level 1, the matching key of the object at a
\* level up to 10 of the redacted body is masked and the matching key of the
\* object at level 11 or deeper holds its value as given; redactJsonBody
\* returns on every body, also one that refers to itself, having created at
\* most 10 objects.
C21_LevelsMasked ==
    (Redacted("body") /\ redacted.body.kind # "text" /\ MatchesOnlySecretKey(config.patterns))
    => \A k \in 1..(MaxNesting + 1) :
          LET id == AtLevel(heap, RootOf(redacted.body), k)
          IN  (id # 0 /\ ~heap[id].isArray)
              => Property(heap, id, <<"k", "e", "y">>)
                   = IF k <= 10 THEN Str(Mask) ELSE Str(<<"s", "3", "c", "r", "e", "t">>)

C21_DepthBoundary ==
    /\ []C21_LevelsMasked
    /\ [][RedactJsonBodyCall => (Redacted("body")' /\ Len(heap') <= Len(heap) + 10)]_vars

C21_Witness ==
    /\ Redacted("body")
    /\ redacted.body.kind = "ref"
    /\ MatchesOnlySecretKey(config.patterns)
    /\ AtLevel(heap, redacted.body.id, 11) # 0
    /\ ~heap[AtLevel(heap, redacted.body.id, 11)].isArray
    /\ Property(heap, AtLevel(heap, redacted.body.id, 10), <<"k", "e", "y">>) = Str(Mask)
    /\ Property(heap, AtLevel(heap, redacted.body.id, 11), <<"k", "e", "y">>)
         = Str(<<"s", "3", "c", "r", "e", "t">>)

C21_WitnessCircular ==
    /\ C21_Witness
    /\ HasProperty(heap, RootOf(config.body), <<"s", "e", "l", "f">>)

\* C22: a call of redactHeaders, redactJsonBody, redactUrl or redactRequest
\* leaves the configuration it was given and every object that existed before
\* the call (the headers object and the body's objects at every level) as
\* they were.
C22_InputsNotMutated ==
    [][RedactNext => (config' = config /\ \A id \in DOMAIN heap : heap'[id] = heap[id])]_vars

C22_Witness ==
    /\ Redacted("request")
    /\ {"headers", "body", "url"} \subseteq DOMAIN redacted.request
    /\ redacted.request.body.kind = "ref"
    /\ Property(heap, redacted.request.body.id, <<"k", "e", "y">>) = Str(Mask)
    /\ Property(heap, config.body.id, <<"k", "e", "y">>) = Str(<<"s", "3", "c", "r", "e", "t">>)
    /\ Property(heap, redacted.request.headers.id, <<"X", "-", "A", "p", "i", "-", "K", "e", "y">>) = Mask
    /\ Property(heap, config.headers.id, <<"X", "-", "A", "p", "i", "-", "K", "e", "y">>)
         = <<"s", "3", "c", "r", "e", "t">>

\* the key or pattern without '-' and '_', in lower case
Folded(s) == toLowerCase(SelectSeq(s, LAMBDA c : c # "-" /\ c # "_"))

\* the folded key has the folded pattern as a run of consecutive characters
ContainsLiterally(key, pattern) ==
    \E offset \in 0..Len(Folded(key)) :
        /\ offset + Len(Folded(pattern)) <= Len(Folded(key))
        /\ \A i \in 1..Len(Folded(pattern)) : Folded(key)[offset + i] = Folded(pattern)[i]

ShouldRedact(key) == \E p \in 1..Len(config.patterns) : ContainsLiterally(key, config.patterns[p])

\* C23: a header, and a key of the body's root object, is masked iff its key,
\* lowercased and without '-' and '_', contains some configured pattern,
\* folded the same way, character for character (so "k.y" does not match
\* "kxy"); with no patterns nothing is masked.
C23_RedactedIffContains ==
    /\ Redacted("headers")
       => \A i \in 1..Len(heap[config.headers.id].entries) :
             LET given == heap[config.headers.id].entries[i]
                 returned == heap[redacted.headers.id].entries[i]
             IN  /\ returned.key = given.key
                 /\ returned.value = IF ShouldRedact(given.key)
                                     THEN IF given.value[1] = "Bearer " THEN BearerMask ELSE Mask
                                     ELSE given.value
    /\ (Redacted("body") /\ redacted.body.kind = "ref")
       => \A i \in 1..Len(heap[config.body.id].entries) :
             LET given == heap[config.body.id].entries[i]
                 returned == heap[redacted.body.id].entries[i]
             IN  /\ returned.key = given.key
                 /\ ShouldRedact(given.key) <=> returned.value = Str(Mask)
                 /\ (~ShouldRedact(given.key) /\ given.value.kind = "string")
                    => returned.value = given.value

C23_Witness ==
    /\ Redacted("headers")
    /\ config.patterns = <<<<"A", "P", "I", "_", "K", "E", "Y">>>>
    /\ Property(heap, redacted.headers.id, <<"X", "-", "A", "p", "i", "-", "K", "e", "y">>) = Mask
    /\ Property(heap, redacted.headers.id, <<"H", "o", "s", "t">>) = <<"a", "p", "i", ".", "c", "o", "m">>

C23_WitnessMetacharacter ==
    /\ Redacted("headers")
    /\ config.patterns = <<<<"k", ".", "y">>>>
    /\ Property(heap, redacted.headers.id, <<"k", "x", "y">>) = <<"v">>
    /\ Property(heap, redacted.headers.id, <<"K", ".", "Y">>) = Mask

\* C24: for every URL that new URL() accepts and every pattern list, the
\* empty one included, the URL returned by redactUrl has no username and no
\* password.
C24_UserinfoStripped ==
    (Redacted("url") /\ config.url.valid)
    => (redacted.url.username = <<>> /\ redacted.url.password = <<>>)

\* the same with at least one pattern configured
C24_UserinfoStrippedWithPatterns ==
    (Redacted("url") /\ config.url.valid /\ config.patterns # <<>>)
    => (redacted.url.username = <<>> /\ redacted.url.password = <<>>)

\* the value a name has in a query, as written
ValuesOf(query, name) == {query[i].value : i \in {j \in 1..Len(query) : query[j].name = name}}

C25_UnparseableUnchanged == (Redacted("url") /\ ~config.url.valid) => redacted.url = config.url

C25_PathKept == (Redacted("url") /\ config.url.valid) => redacted.url.path = config.url.path

C25_FragmentKept ==
    (Redacted("url") /\ config.url.valid) => redacted.url.fragment = config.url.fragment

C25_ValuesKeptOrMasked ==
    (Redacted("url") /\ config.url.valid)
    => \A i \in 1..Len(config.url.query) :
          LET name == config.url.query[i].name
          IN  ValuesOf(redacted.url.query, name)
                = IF ShouldRedact(name) THEN {Mask} ELSE ValuesOf(config.url.query, name)

C25_PlainUrlUnchanged ==
    (Redacted("url") /\ config.url.valid /\ config.url.query = <<>>
       /\ config.url.username = <<>> /\ config.url.password = <<>>)
    => redacted.url = config.url

\* C25: redactUrl returns input that is no URL unchanged; of a URL it returns
\* the path and the fragment as given, the value of every parameter whose name
\* matches a pattern as "****" and the value of every other parameter as
\* given, and a URL without query and userinfo unchanged.
C25_OnlyMatchingValuesChange ==
    /\ C25_UnparseableUnchanged
    /\ C25_PathKept
    /\ C25_FragmentKept
    /\ C25_ValuesKeptOrMasked
    /\ C25_PlainUrlUnchanged

(***************************************************************************)
(* Claims about the execute command.                                       *)
(***************************************************************************)
\* the outputs that show the request
RequestOutputs == {o \in 1..Len(stdout) : "request" \in DOMAIN stdout[o]}

SensitiveHeaderNames ==
    {<<"a", "u", "t", "h", "o", "r", "i", "z", "a", "t", "i", "o", "n">>,
     <<"x", "-", "a", "p", "i", "-", "k", "e", "y">>,
     <<"a", "p", "i", "-", "k", "e", "y">>,
     <<"x", "-", "a", "u", "t", "h", "-", "t", "o", "k", "e", "n">>,
     <<"a", "u", "t", "h", "-", "t", "o", "k", "e", "n">>}

\* the credential of a header value: what follows the scheme, or all of it
Credential(value) ==
    IF \E i \in 1..Len(value) : value[i] = " "
    THEN SubSeq(value, (CHOOSE i \in 1..Len(value) :
                           value[i] = " " /\ \A j \in 1..(i - 1) : value[j] # " ") + 1,
                Len(value))
    ELSE value

\* C26: in the output of a request that was sent, the value shown for a
\* sensitive header (Authorization, X-API-Key, API-Key, X-Auth-Token,
\* Auth-Token) never contains the complete credential that was sent.
C26_CredentialNeverWhole ==
    \A o \in RequestOutputs :
        "headers" \in DOMAIN stdout[o].request
        => \A i \in 1..Len(fetched[1].headers) :
              (/\ toLowerCase(fetched[1].headers[i].key) \in SensitiveHeaderNames
               /\ Credential(fetched[1].headers[i].value) # <<>>)
              => ~includes(stdout[o].request.headers[i].value,
                           Credential(fetched[1].headers[i].value))

\* the name of a parameter contains token, key, secret or password
NamesSecret(name) ==
    \E word \in {<<"t", "o", "k", "e", "n">>, <<"k", "e", "y">>, <<"s", "e", "c", "r", "e", "t">>, <<"p", "a", "s", "s", "w", "o", "r", "d">>} :
        \E at \in 0..(Len(name) - Len(word)) :
            SubSeq(toLowerCase(name), at + 1, at + Len(word)) = word

\* the name=value pairs a shown URL has after its "?"
ShownQuery(url) ==
    IF url.valid THEN url.query
    ELSE IF \E i \in 1..Len(url.text) : url.text[i] = "?"
    THEN QueryPairs(SubSeq(url.text, (CHOOSE i \in 1..Len(url.text) : url.text[i] = "?") + 1,
                           Len(url.text)))
    ELSE <<>>

SecretsReplaced(url) ==
    \A i \in 1..Len(ShownQuery(url)) :
        NamesSecret(ShownQuery(url)[i].name) => ShownQuery(url)[i].value = <<"***">>

C27_SuccessOutputRedacted ==
    \A o \in RequestOutputs : "error" \notin DOMAIN stdout[o] => SecretsReplaced(stdout[o].request.url)

\* C27: every output that shows the request URL, the success output and the
\* NetworkError output alike, shows "***" as the value of every query
\* parameter whose name contains token, key, secret or password.
C27_QuerySecretsReplaced ==
    \A o \in RequestOutputs : SecretsReplaced(stdout[o].request.url)

\* the text has "{{", then something, then "}}"
HasPlaceholder(text) ==
    \E i, j \in 1..Len(text) :
        /\ i + 2 < j /\ j < Len(text)
        /\ text[i] = "{" /\ text[i + 1] = "{"
        /\ text[j] = "}" /\ text[j + 1] = "}"

SentTexts ==
    {fetched[1].url, fetched[1].body} \cup {fetched[1].headers[i].value : i \in 1..Len(fetched[1].headers)}

C28_NoPlaceholderSent == fetched # <<>> => \A text \in SentTexts : ~HasPlaceholder(text)

\* a MissingVariableError is the only output and nothing was fetched
C28_MissingEndsBeforeFetch ==
    (\E o \in 1..Len(stdout) : "error" \in DOMAIN stdout[o]
                                /\ stdout[o].error.type = "MissingVariableError")
    => (fetched = <<>> /\ exitCode = 1 /\ Len(stdout) = 1)

\* the value the .env file gives a name: that of the last line with the name
EnvFileValue(name) ==
    dotEnv[CHOOSE l \in 1..Len(dotEnv) :
              dotEnv[l].key = name /\ \A m \in (l + 1)..Len(dotEnv) : dotEnv[m].key # name].value

\* a header whose value is one placeholder of a name the .env file defines is
\* sent with the value of the .env file, whatever the shell environment has
C28_EnvFileValueSent ==
    fetched # <<>>
    => \A i \in 1..Len(request.headers) :
          LET value == request.headers[i].value
              name == SubSeq(value, 3, Len(value) - 2)
          IN  (/\ Len(value) > 4
               /\ SubSeq(value, 1, 2) = <<"{", "{">>
               /\ SubSeq(value, Len(value) - 1, Len(value)) = <<"}", "}">>
               /\ \E l \in 1..Len(dotEnv) : dotEnv[l].key = name)
              => fetched[1].headers[i].value = EnvFileValue(name)

\* C28: a request with a {{...}} placeholder that neither the .env file nor
\* the shell environment resolves is never sent, the command ending with a
\* MissingVariableError before any network call, so that no text sent has a
\* literal placeholder; a variable defined in both is sent with the value of
\* the .env file.
C28_UnresolvedNeverSent ==
    /\ C28_NoPlaceholderSent
    /\ C28_MissingEndsBeforeFetch
    /\ C28_EnvFileValueSent

(***************************************************************************)
(* Claims about extractMultiLineHandler.                                   *)
(***************************************************************************)
Extracted == extracted # NotParsed

\* the index (from 0) of the line that closes the well-formed block opening
\* at line startIndex: the one-line handler itself, or the "%}" line that
\* follows "> {%" and statement lines; -1 when no such block opens there
WellFormedEnd ==
    LET lines == ContentLines
        closings == {c \in (startIndex + 2)..Len(lines) :
                        /\ lines[c] = CloseLine
                        /\ \A l \in (startIndex + 2)..(c - 1) : lines[l] = StatementLine}
    IN  IF startIndex >= Len(lines) THEN -1
        ELSE IF lines[startIndex + 1] = OneLineHandler THEN startIndex
        ELSE IF lines[startIndex + 1] = OpenLine /\ closings # {} THEN Least(closings) - 1
        ELSE -1

C31_EndIdxIsClosingLine ==
    (Extracted /\ WellFormedEnd # -1) => extracted.endIdx = WellFormedEnd

\* C31: for lines in which startIdx is the opening line of a well-formed
\* block, extractMultiLineHandler returns a handler that is not null, with
\* startLine = startIdx, and endIdx the index of the line with the "%}".
C31_ReturnsBlock ==
    (Extracted /\ WellFormedEnd # -1)
    => /\ "handler" \in DOMAIN extracted
       /\ extracted.handler.startLine = startIndex
       /\ extracted.endIdx = WellFormedEnd

\* no call returns a handler at all
C31_HandlerAlwaysNull == Extracted => "handler" \notin DOMAIN extracted

(***************************************************************************)
(* Claims about client.test.                                               *)
(***************************************************************************)
RunsTest(e) == exec[e].sid # 0 /\ ScriptOf(e) = TestThrowScript

\* C32: a script whose client.test callback throws is not aborted: the call
\* of test returns into the script, the client.global.set after it is
\* committed before the script returns, and executeScript reports success.
C32_TestNeverAborts ==
    /\ [](\A e \in Execs :
             /\ (RunsTest(e) /\ exec[e].done) => (exec[e].success /\ exec[e].error = <<>>)
             /\ (RunsTest(e) /\ running = e /\ exec[e].pos = 3) => getMemory(KeyA) = "B")
    /\ [][\A e \in Execs : StepTest(e) => (running' = e /\ ~exec'[e].done /\ exec'[e].pos = 2)]_vars

C32_Witness ==
    \E e \in Execs : RunsTest(e) /\ exec[e].done /\ exec[e].success /\ getMemory(KeyA) = "B"

(***************************************************************************)
(* Claims about the keys and tiers of the variable store.                  *)
(***************************************************************************)
ParentDirectory == <<".", ".", "/">>

\* C33: no key handed to the durable writer by setPersistent contains "../".
C33_WriterKeyHasNoTraversal ==
    \A w \in 1..Len(writes) : ~includes(writes[w].key, ParentDirectory)

\* What holds instead: the writer receives the key with only its line
\* breaks removed.
C33_WriterKeyOnlyLosesLineBreaks ==
    (hostCall.op = "setPersistent" /\ hasWriter /\ writes # <<>>) =>
        /\ writes[Len(writes)].key = sanitizeKey(hostCall.key)
        /\ includes(hostCall.key, ParentDirectory) =>
               includes(writes[Len(writes)].key, ParentDirectory)

WritesThenFails(e) == exec[e].sid # 0 /\ ScriptOf(e) \in {SetThrowScript, SetLoopScript}

\* C34: when a script that wrote session variable "a" fails, by throwing or by
\* running into the timeout, the write is still in the session tier as
\* executeScript returns the failure: nothing is rolled back.
C34_NoRollback ==
    [][\A e \in Execs :
          (Returns(e) /\ WritesThenFails(e)) =>
              /\ ~exec'[e].success
              /\ getMemory(KeyA)' = "B"
              /\ memoryStore' = memoryStore]_vars

C34_Witness ==
    \E e, f \in Execs :
        /\ Returned(e) /\ ScriptOf(e) = SetLoopScript
        /\ ~exec[e].success /\ exec[e].error = NormalizeError(TimedOutMessage)
        /\ Returned(f) /\ ScriptOf(f) = SetThrowScript /\ ~exec[f].success
        /\ getMemory(KeyA) = "B"

\* the promise of the last host call, a setPersistent, has been rejected
LastSetPersistentRejected ==
    /\ hostCall.op = "setPersistent"
    /\ hasWriter
    /\ writes # <<>>
    /\ writes[Len(writes)].st = "rejected"

\* C35 (as claimed): once setPersistent(k, v) has been rejected, for every key
\* k, getPersistent(k) returns v, and get(k) returns v when the session tier
\* has no value of k.
C35_RejectedWriteStays_EveryKey ==
    LastSetPersistentRejected =>
        /\ getPersistent(hostCall.key) = hostCall.value
        /\ hostCall.key \notin DOMAIN memoryStore => get(hostCall.key) = hostCall.value

\* C35 (amended): once setPersistent(k, v) has been rejected, the persistent
\* tier still holds v under the sanitized key: getPersistent and (without a
\* shadowing session value) get return v for that key, which is k itself when
\* k has no line break.
C35_RejectedWriteStays ==
    LastSetPersistentRejected =>
        LET sanitized == sanitizeKey(hostCall.key)
        IN  /\ getPersistent(sanitized) = hostCall.value
            /\ sanitized \notin DOMAIN memoryStore => get(sanitized) = hostCall.value
            /\ LineBreakFree(hostCall.key) => sanitized = hostCall.key

C35_Witness ==
    /\ LastSetPersistentRejected
    /\ hostCall = Called("setPersistent", KeyTraversal, "A")
    /\ getPersistent(KeyTraversal) = "A"
    /\ get(KeyTraversal) = "A"

HasLineBreak(key) == \E i \in 1..Len(key) : key[i] \in LineBreaks

\* the step is a call of setPersistent by the host (the other steps leave
\* hostCall, the persistent tier and the number of writer invocations alone)
SetPersistentReturns ==
    /\ hostCall'.op = "setPersistent"
    /\ \/ hostCall' # hostCall
       \/ persistentStore' # persistentStore
       \/ Len(writes') > Len(writes)

\* What every call setPersistent(k, v) does to the persistent tier: a key free
\* of line breaks maps to v; the key "a\r\n" is stored as "a", overwriting the
\* value of "a", and is itself not a key of the tier; the other keys keep
\* their values.
PersistentRoundTrip(k, v) ==
    /\ ~HasLineBreak(k) => getPersistent(k)' = v
    /\ k = KeyNL =>
           /\ getPersistent(KeyA)' = v
           /\ getPersistent(KeyNL)' = Undefined
    /\ \A j \in PersistentKeys \ {k} :
           (k \in {KeyA, KeyNL} /\ j \in {KeyA, KeyNL}) \/ getPersistent(j)' = getPersistent(j)

ExistenceAgrees(k, all) ==
    /\ has(k) <=> get(k) # Undefined
    /\ has(k) <=> k \in DOMAIN all
    /\ k \in DOMAIN all => all[k] = get(k)

\* C37: in every state of the store, for every key k, has(k) is true iff
\* get(k) is not absent iff k is a key of getAll(), and then getAll()[k]
\* equals get(k).
C37_ExistenceAndLookupAgree ==
    LET all == getAll
    IN  \A k \in PersistentKeys : ExistenceAgrees(k, all)

\* What holds instead: the three agree for every key but "__proto__", and has
\* and get agree for that key too.
C37_AgreeExceptProto ==
    LET all == getAll
    IN  /\ \A k \in PersistentKeys \ {KeyProto} : ExistenceAgrees(k, all)
        /\ has(KeyProto) <=> get(KeyProto) # Undefined
        /\ KeyProto \notin DOMAIN all

(***************************************************************************)
(* Claims about the malformed closing marker.                              *)
(***************************************************************************)
\* no "%}" on the line, and a "}" somewhere after its last "%"
BraceAfterLastPercent(line) ==
    /\ ~HasClosing(line)
    /\ \E p \in 1..Len(line) :
          /\ line[p] = "%"
          /\ \A r \in (p + 1)..Len(line) : line[r] # "%"
          /\ \E q \in (p + 2)..Len(line) : line[q] = "}"

\* line m is the first line of the block opened at line o that has a "%}" or
\* a "}" after its last "%", and it is of the second kind; every block before
\* line o is a complete one-line handler
EndsBlockMalformed(lines, o, m) ==
    /\ OpensBlock(lines[o])
    /\ \A l \in 1..(o - 1) : lines[l] = OneLineHandler \/ ~OpensBlock(lines[l])
    /\ BraceAfterLastPercent(lines[m])
    /\ \A l \in o..(m - 1) : ~HasClosing(lines[l]) /\ ~BraceAfterLastPercent(lines[l])

\* C38: when the first line of an open block to have a "%}" or a '}' after its
\* last '%' has no "%}", the result is the malformed-closing diagnostic alone,
\* whatever follows and whatever handlers were extracted before the block;
\* the line may be the opening line or a script line.
C38_BraceAfterPercentEndsParse ==
    LET lines == ContentLines
    IN  (Parsed /\ \E o \in 1..Len(lines) : \E m \in o..Len(lines) :
                       EndsBlockMalformed(lines, o, m))
        => parsed = [hasHandler |-> TRUE, error |-> InvalidClosingError]

\* a modulo expression in a block after an extracted handler, "%}" later
C38_Witness ==
    /\ Parsed
    /\ ContentLines = <<OneLineHandler, OpenLine, ModuloLine, CloseLine>>
    /\ parsed = [hasHandler |-> TRUE, error |-> InvalidClosingError]

\* the opening line itself
C38_WitnessOpeningLine ==
    /\ Parsed
    /\ ContentLines = <<OneLineHandler, SpacedOpenLine, StatementLine, CloseLine>>
    /\ parsed = [hasHandler |-> TRUE, error |-> InvalidClosingError]

(***************************************************************************)
(* Claims about patterns that match every key and about masked subtrees.   *)
(***************************************************************************)
\* the pattern is made of hyphens and underscores only (or of nothing)
NormalizesToEmpty(pattern) == \A i \in 1..Len(pattern) : pattern[i] \in {"-", "_"}

MatchesEveryKey == \E p \in 1..Len(config.patterns) : NormalizesToEmpty(config.patterns[p])

EveryHeaderMasked(headers) ==
    \A i \in 1..Len(heap[headers.id].entries) :
        heap[headers.id].entries[i].value \in {Mask, BearerMask}

EveryTopLevelValueMasked(body) ==
    \A i \in 1..Len(heap[RootOf(body)].entries) :
        heap[RootOf(body)].entries[i].value = Str(Mask)

EveryParameterMasked(url) == \A i \in 1..Len(url.query) : url.query[i].value = Mask

HeadersAndUrlMasked ==
    /\ Redacted("headers") => EveryHeaderMasked(redacted.headers)
    /\ (Redacted("url") /\ config.url.valid) => EveryParameterMasked(redacted.url)
    /\ Redacted("request") =>
           /\ "headers" \in DOMAIN config => EveryHeaderMasked(redacted.request.headers)
           /\ ("url" \in DOMAIN config /\ config.url.valid)
                  => EveryParameterMasked(redacted.request.url)

\* the body returned by the call, if the call returns one that JSON can hold
ReturnedBodies ==
    {b \in (IF Redacted("body") THEN {redacted.body} ELSE {})
             \cup (IF Redacted("request") THEN {redacted.request.body} ELSE {}) :
        b.kind # "text"}

\* C39 (as claimed): with a pattern that normalizes to "" in the list, every
\* header value, every top-level value of the body and every query parameter
\* value returned is the mask.
C39_EmptyPatternMasksAll_EveryBody ==
    MatchesEveryKey =>
        /\ HeadersAndUrlMasked
        /\ \A b \in ReturnedBodies : EveryTopLevelValueMasked(b)

\* C39 (amended): the same for a body that is an object; of a body that is an
\* array the elements are not masked: a string element is returned as given
\* and every value of an object element is masked.
C39_EmptyPatternMasksAll ==
    MatchesEveryKey =>
        /\ HeadersAndUrlMasked
        /\ \A b \in ReturnedBodies :
              LET root == heap[RootOf(b)]
              IN  /\ ~root.isArray => EveryTopLevelValueMasked(b)
                  /\ root.isArray =>
                        \A i \in 1..Len(root.entries) :
                            LET given == heap[RootOf(config.body)].entries[i].value
                                returned == root.entries[i].value
                            IN  /\ given.kind = "string" => returned = given
                                /\ given.kind = "ref" =>
                                      /\ returned.kind = "ref"
                                      /\ \A j \in 1..Len(heap[returned.id].entries) :
                                            heap[returned.id].entries[j].value = Str(Mask)

C39_Witness ==
    /\ Redacted("request")
    /\ config.patterns = <<<<"-">>>>
    /\ {"headers", "url"} \subseteq DOMAIN config
    /\ config.url.valid /\ Len(config.url.query) = 2
    /\ redacted.request.body.kind = "ref"
    /\ Len(heap[redacted.request.body.id].entries) = 1
    /\ EveryTopLevelValueMasked(redacted.request.body)
    /\ EveryParameterMasked(redacted.request.url)
    /\ EveryHeaderMasked(redacted.request.headers)

C39_WitnessNestedValue ==
    /\ Redacted("body")
    /\ config.patterns = <<<<"-">>>>
    /\ redacted.body.kind = "ref"
    /\ Len(heap[redacted.body.id].entries) = 2
    /\ NestsUnder(heap, config.body.id, <<"l", "e", "v", "e", "l">>)
    /\ EveryTopLevelValueMasked(redacted.body)

\* the objects and arrays a call of redactJsonBody with patterns has created:
\* the returned root is the first of them
CreatedBy(body) == RootOf(body)..Len(heap)

\* C40: in every object that body redaction has created, a key that matches
\* holds the mask, whether the value given under it was a string, an object
\* or an array; and every object or array created below the root is an
\* element of a created array or the value of a key that does not match, so
\* nothing beneath a masked key has been redacted into the output.
C40_MatchingKeyMasksSubtree ==
    (Redacted("body") /\ redacted.body.kind # "text" /\ config.patterns # <<>>) =>
        LET created == CreatedBy(redacted.body)
        IN  /\ \A id \in created :
                  ~heap[id].isArray =>
                      \A i \in 1..Len(heap[id].entries) :
                          ShouldRedact(heap[id].entries[i].key)
                              => heap[id].entries[i].value = Str(Mask)
            /\ \A id \in created \ {RootOf(redacted.body)} :
                  \E parent \in created :
                      \E i \in 1..Len(heap[parent].entries) :
                          /\ heap[parent].entries[i].value = Ref(id)
                          /\ heap[parent].isArray \/ ~ShouldRedact(heap[parent].entries[i].key)

\* an array of two levels under a key that matches: one object is created
C40_Witness ==
    /\ Redacted("body")
    /\ redacted.body.kind = "ref"
    /\ config.patterns = <<<<"-">>>>
    /\ NestsUnder(heap, config.body.id, <<"l", "e", "v", "e", "l">>)
    /\ heap[Property(heap, config.body.id, <<"l", "e", "v", "e", "l">>).id].isArray
    /\ Property(heap, redacted.body.id, <<"l", "e", "v", "e", "l">>) = Str(Mask)
    /\ CreatedBy(redacted.body) = {Len(heap)}

====
